---- MODULE Spec2Model ----
(***************************************************************************)
(* ELTT-Blockchain: the in-memory ledger engine of src/ELTT-Blockchain.py  *)
(* (token/wallet registry, transaction validation and application, block   *)
(* validation and append) together with the wallet and pool helpers of     *)
(* src/PYTHON-ELTT-MODULE-PARITY/ELTT-Blockchain.                          *)
(*                                                                         *)
(* Conventions.                                                            *)
(*  - The aggregate root is the record bc with the fields of the Python    *)
(*    dataclass Blockchain.  Python lists are sequences; Python indices    *)
(*    are kept 0-based (and -1 as the failure sentinel) and converted by   *)
(*    PyAt, so that wallets[-1] denotes the last wallet, as in Python.     *)
(*  - Strings are sequences of code points (so that slicing name[:64] and  *)
(*    the address checks can be computed).                                 *)
(*  - Amounts and balances are Python floats; the model draws them from    *)
(*    the integers, on which float +, - and comparisons are exact, and     *)
(*    from NaN (see FLt, FLe, FAdd, FNeg).                                 *)
(*  - A digest is the sequence <<1>> \o preimage: a collision-free hash    *)
(*    whose value is never the 32 zero bytes ZeroHash.                     *)
(*  - The caller is modelled by pc: "idle" -> (Call) -> "called" ->        *)
(*    (the operation, one atomic action) -> "returned" -> (Return) ->      *)
(*    "idle".  call holds the operation, its argument and its result.      *)
(***************************************************************************)
EXTENDS Integers, Sequences, FiniteSets, TLC

VARIABLES bc, pc, call

vars == <<bc, pc, call>>

(***************************************************************************)
(* Program constants.  The capacities are scaled down so that the model    *)
(* reaches them: the source has 64 token types and 1024 wallets.           *)
(***************************************************************************)
ELTT_MAX_TOKEN_SYMBOL_LEN == 16
ELTT_MAX_TOKEN_NAME_LEN == 64
ELTT_MAX_TOKEN_TYPES == 4
ELTT_MAX_WALLETS == 2
ELTT_MAX_TX_PER_BLOCK == 2
ELTT_MAX_ADDRESS_LEN == 64

(***************************************************************************)
(* Bounds of the model.                                                    *)
(***************************************************************************)
\* Blocks a caller submits while the chain is shorter than this.
MaxBlocks == 2
\* The same for the specification of the header checks.
MaxChain == 3
\* Pools created.
MaxPools == 1

\* The largest magnitude of a reserve at which liquidity is still added or
\* removed.
MaxReserve == 2

(***************************************************************************)
(* Python helpers.                                                         *)
(***************************************************************************)
\* seq[i] for a Python index i (negative indices count from the end).
PyAt(seq, i) == IF i < 0 THEN Len(seq) + i + 1 ELSE i + 1

\* s[:n]
Take(s, n) == SubSeq(s, 1, IF Len(s) < n THEN Len(s) ELSE n)

\* b"\x00" * 32
ZeroHash == <<0>>

\* hashlib.sha256(data).digest()
sha256(data) == <<1>> \o data

(***************************************************************************)
(* Data structures.                                                        *)
(***************************************************************************)
TokenType(name, symbol, decimals, kind, energy_binding_factor) ==
    [name |-> name, symbol |-> symbol, decimals |-> decimals, kind |-> kind,
     energy_binding_factor |-> energy_binding_factor]

Wallet(address, token_count, tokens, balances) ==
    [address |-> address, token_count |-> token_count, tokens |-> tokens,
     balances |-> balances]

Transaction(from_address, to_address, amount, token_index, kind, memo) ==
    [from_address |-> from_address, to_address |-> to_address,
     amount |-> amount, token_index |-> token_index, kind |-> kind,
     memo |-> memo]

Block(index, timestamp, prev_hash, hash, txs) ==
    [index |-> index, timestamp |-> timestamp, prev_hash |-> prev_hash,
     hash |-> hash, txs |-> txs]

LiquidityPool(token_x_index, token_y_index, reserve_x, reserve_y, lp_token_index) ==
    [token_x_index |-> token_x_index, token_y_index |-> token_y_index,
     reserve_x |-> reserve_x, reserve_y |-> reserve_y,
     lp_token_index |-> lp_token_index]

Blockchain(blocks, wallets, token_types, pools, stakes) ==
    [blocks |-> blocks, wallets |-> wallets, token_types |-> token_types,
     pools |-> pools, stakes |-> stakes]

(***************************************************************************)
(* Hashing and serialization.                                              *)
(***************************************************************************)
\* Mutant of _serialize_block_header: the recipient of the first transaction
\* is serialized after the header fields.
_serialize_block_header_with_txs(block) ==
    <<block.index, block.timestamp>> \o block.prev_hash \o <<Len(block.txs)>>
    \o (IF block.txs = <<>> THEN <<>> ELSE block.txs[1].to_address)

\* index (4 bytes), timestamp (8 bytes), prev_hash (32 bytes), len(txs) (8 bytes):
\* each fixed-width field is one element; the transactions themselves are absent.
_serialize_block_header(block) ==
    <<block.index, block.timestamp>> \o block.prev_hash \o <<Len(block.txs)>>

compute_block_hash(block) == sha256(_serialize_block_header(block))

(***************************************************************************)
(* Transaction serialization and energy.                                   *)
(***************************************************************************)
\* str.encode("utf-8"): one to four bytes per code point.
RECURSIVE utf8(_)
utf8(s) ==
    IF s = <<>> THEN <<>>
    ELSE LET c == Head(s)
             bytes == IF c < 128 THEN <<c>>
                      ELSE IF c < 2048 THEN <<192 + (c \div 64), 128 + (c % 64)>>
                      ELSE IF c < 65536
                           THEN <<224 + (c \div 4096), 128 + ((c \div 64) % 64), 128 + (c % 64)>>
                      ELSE <<240 + (c \div 262144), 128 + ((c \div 4096) % 64),
                             128 + ((c \div 64) % 64), 128 + (c % 64)>>
         IN  bytes \o utf8(Tail(s))

\* struct.pack("!i", n): four bytes, big-endian, two's complement.
pack_i(n) ==
    LET low == IF n >= 0 THEN n ELSE (n + 2147483647) + 1
        top == (IF n >= 0 THEN 0 ELSE 128) + (low \div 16777216)
    IN  <<top, (low \div 65536) % 256, (low \div 256) % 256, low % 256>>

\* The exponent e with 2^e <= x < 2^(e+1), for 1 <= x < 2^20.
RECURSIVE Log2(_)
Log2(x) == IF x < 2 THEN 0 ELSE 1 + Log2(x \div 2)

\* struct.pack("!d", float(x)) for an integer x with |x| < 2^20: sign bit, 11
\* bits of exponent, 52 bits of mantissa of which only the first 20 are not 0.
pack_d(x) ==
    LET a == IF x < 0 THEN 0 - x ELSE x
        sign == IF x < 0 THEN 128 ELSE 0
        e == Log2(a)
        exponent == IF a = 0 THEN 0 ELSE 1023 + e
        mantissa == IF a = 0 THEN 0 ELSE (a - (2 ^ e)) * (2 ^ (20 - e))
    IN  <<sign + (exponent \div 16), ((exponent % 16) * 16) + (mantissa \div 65536),
          (mantissa \div 256) % 256, mantissa % 256, 0, 0, 0, 0>>

\* The code of a kind in the serialization.
KindCode(kind) ==
    CASE kind = "TRANSFER" -> 0 [] kind = "MINT" -> 1 [] kind = "BURN" -> 2
      [] kind = "CREATE_TOKEN" -> 3 [] kind = "CREATE_POOL" -> 4
      [] kind = "ADD_LIQUIDITY" -> 5 [] kind = "REMOVE_LIQUIDITY" -> 6
      [] kind = "STAKE" -> 7 [] kind = "UNSTAKE" -> 8 [] kind = "CLAIM_REWARDS" -> 9
      [] kind = "SWAP" -> 10 [] kind = "PROFILE_UPDATE" -> 11
      [] kind = "GOVERNANCE_PROPOSAL" -> 12

\* Mutant of _serialize_transaction: the strings are not terminated by a 0 byte.
_serialize_transaction_no_terminator(tx) ==
    utf8(tx.from_address) \o utf8(tx.to_address)
    \o pack_d(tx.amount) \o pack_i(tx.token_index) \o pack_i(KindCode(tx.kind))
    \o utf8(tx.memo)

_serialize_transaction(tx) ==
    (utf8(tx.from_address) \o <<0>>) \o (utf8(tx.to_address) \o <<0>>)
    \o pack_d(tx.amount) \o pack_i(tx.token_index) \o pack_i(KindCode(tx.kind))
    \o (utf8(tx.memo) \o <<0>>)

_si_byte_value_from_size(size) == IF size <= 0 THEN 0 ELSE size

_binary_byte_value_from_size(size) == IF size <= 0 THEN 0 ELSE size

\* int.from_bytes(sha256(data).digest()[24:32], "big"): a number determined by
\* the data and spread over a range (here 31 bits of the 64) that exceeds the
\* modulus of the fraction.
RECURSIVE Mix(_, _)
Mix(h, data) ==
    IF data = <<>> THEN h
    ELSE Mix(((h * 7) + Head(data)) % 300000007, Tail(data))

Last8(data) == (Mix(123456789, data) * 7) + Len(data)

\* The divisor of the fraction.
ELTT_ENERGY_FRAC_MODULUS == 1000000000

\* Mutant of compute_tx_energy: the tail of the hash is taken modulo 2^31.
compute_tx_energy_wide(tx) ==
    LET serialized == _serialize_transaction(tx)
    IN  [units |-> _si_byte_value_from_size(Len(serialized))
                   + _binary_byte_value_from_size(Len(serialized)),
         nanos |-> Last8(serialized)]

\* The float si_value + bin_value + frac is the pair of its integral part
\* (units) and its fraction in 1/1,000,000,000 (nanos).
compute_tx_energy(tx) ==
    LET serialized == _serialize_transaction(tx)
        si_value == _si_byte_value_from_size(Len(serialized))
        bin_value == _binary_byte_value_from_size(Len(serialized))
        last8 == Last8(serialized)
    IN  [units |-> si_value + bin_value, nanos |-> last8 % ELTT_ENERGY_FRAC_MODULUS]

(***************************************************************************)
(* Wallet and token logic.                                                 *)
(***************************************************************************)
\* 0-based index of the first wallet with this address, -1 if there is none.
_find_wallet_index(b, address) ==
    IF \E i \in 1..Len(b.wallets) : b.wallets[i].address = address
    THEN (CHOOSE i \in 1..Len(b.wallets) :
             /\ b.wallets[i].address = address
             /\ \A j \in 1..(i - 1) : b.wallets[j].address # address) - 1
    ELSE -1

\* A fresh wallet as _add_wallet and create_wallet build it.
NewWallet(b, address) ==
    Wallet(address, Len(b.token_types), b.token_types,
           [k \in 1..Len(b.token_types) |-> 0])

\* Result: the new aggregate and the returned index.
_add_wallet(b, address) ==
    IF Len(b.wallets) >= ELTT_MAX_WALLETS
    THEN [bc |-> b, ret |-> -1]
    ELSE [bc |-> [b EXCEPT !.wallets = Append(@, NewWallet(b, address))],
          ret |-> Len(b.wallets)]

\* Mutant of _find_or_create_wallet: the lookup is skipped.
_find_or_create_wallet_no_lookup(b, address) == _add_wallet(b, address)

_find_or_create_wallet(b, address) ==
    IF _find_wallet_index(b, address) >= 0
    THEN [bc |-> b, ret |-> _find_wallet_index(b, address)]
    ELSE _add_wallet(b, address)

\* Mutant of add_token_type: the capacity test is > instead of >=.
add_token_type_off_by_one(b, name, symbol, decimals, kind, energy_binding_factor) ==
    IF Len(b.token_types) > ELTT_MAX_TOKEN_TYPES
    THEN [bc |-> b, ret |-> -1]
    ELSE LET t == TokenType(Take(name, ELTT_MAX_TOKEN_NAME_LEN),
                            Take(symbol, ELTT_MAX_TOKEN_SYMBOL_LEN),
                            decimals, kind, energy_binding_factor)
             types == Append(b.token_types, t)
         IN  [bc |-> [b EXCEPT
                        !.token_types = types,
                        !.wallets = [i \in 1..Len(b.wallets) |->
                            [b.wallets[i] EXCEPT
                               !.tokens = types,
                               !.balances = Append(@, 0),
                               !.token_count = Len(types)]]],
              ret |-> Len(types) - 1]

\* Mutant of add_token_type: the existing wallets are not re-synced.
add_token_type_no_sync(b, name, symbol, decimals, kind, energy_binding_factor) ==
    IF Len(b.token_types) >= ELTT_MAX_TOKEN_TYPES
    THEN [bc |-> b, ret |-> -1]
    ELSE [bc |-> [b EXCEPT !.token_types = Append(@,
                    TokenType(Take(name, ELTT_MAX_TOKEN_NAME_LEN),
                              Take(symbol, ELTT_MAX_TOKEN_SYMBOL_LEN),
                              decimals, kind, energy_binding_factor))],
          ret |-> Len(b.token_types)]

\* Mutant of add_token_type: the balance vectors are rebuilt with zeros.
add_token_type_reset(b, name, symbol, decimals, kind, energy_binding_factor) ==
    IF Len(b.token_types) >= ELTT_MAX_TOKEN_TYPES
    THEN [bc |-> b, ret |-> -1]
    ELSE LET t == TokenType(Take(name, ELTT_MAX_TOKEN_NAME_LEN),
                            Take(symbol, ELTT_MAX_TOKEN_SYMBOL_LEN),
                            decimals, kind, energy_binding_factor)
             types == Append(b.token_types, t)
         IN  [bc |-> [b EXCEPT
                        !.token_types = types,
                        !.wallets = [i \in 1..Len(b.wallets) |->
                            [b.wallets[i] EXCEPT
                               !.tokens = types,
                               !.balances = [k \in 1..Len(types) |-> 0],
                               !.token_count = Len(types)]]],
              ret |-> Len(types) - 1]

\* Result: the new aggregate and the returned index (-1: no capacity).
add_token_type(b, name, symbol, decimals, kind, energy_binding_factor) ==
    IF Len(b.token_types) >= ELTT_MAX_TOKEN_TYPES
    THEN [bc |-> b, ret |-> -1]
    ELSE LET t == TokenType(Take(name, ELTT_MAX_TOKEN_NAME_LEN),
                            Take(symbol, ELTT_MAX_TOKEN_SYMBOL_LEN),
                            decimals, kind, energy_binding_factor)
             types == Append(b.token_types, t)
         IN  [bc |-> [b EXCEPT
                        !.token_types = types,
                        !.wallets = [i \in 1..Len(b.wallets) |->
                            [b.wallets[i] EXCEPT
                               !.tokens = types,
                               !.balances = Append(@, 0),
                               !.token_count = Len(types)]]],
              ret |-> Len(types) - 1]

\* create_wallet of the wallet parity module: no capacity check.
\* Result: the new aggregate and the returned wallet.
create_wallet(b, address) ==
    IF _find_wallet_index(b, address) >= 0
    THEN [bc |-> b, ret |-> b.wallets[PyAt(b.wallets, _find_wallet_index(b, address))]]
    ELSE [bc |-> [b EXCEPT !.wallets = Append(@, NewWallet(b, address))],
          ret |-> NewWallet(b, address)]

\* create_pool of the pool parity module.
create_pool(b, token_x_index, token_y_index, lp_token_index) ==
    [bc |-> [b EXCEPT !.pools = Append(@,
                LiquidityPool(token_x_index, token_y_index, 0, 0, lp_token_index))],
     ret |-> LiquidityPool(token_x_index, token_y_index, 0, 0, lp_token_index)]

(***************************************************************************)
(* Transaction validation and application.                                 *)
(***************************************************************************)
\* Amounts and balances are Python floats.  The model takes the integers
\* among them, on which float arithmetic is exact, and the one float that is
\* not ordered: NaN is float("nan"), written as a number no transaction or
\* balance otherwise carries.  FLt, FLe, FAdd and FNeg are <, <=, + and unary
\* minus on floats: a comparison with NaN is false, a sum with NaN is NaN.
NaN == -1000000

FLt(x, y) == x # NaN /\ y # NaN /\ x < y

FLe(x, y) == x # NaN /\ y # NaN /\ x <= y

FAdd(x, y) == IF x = NaN \/ y = NaN THEN NaN ELSE x + y

FNeg(x) == IF x = NaN THEN NaN ELSE 0 - x

_validate_transaction(b, tx) ==
    LET from_idx == _find_wallet_index(b, tx.from_address)
        to_idx == _find_wallet_index(b, tx.to_address)
    IN  IF tx.token_index < 0 \/ tx.token_index >= Len(b.token_types) THEN FALSE
        ELSE IF FLt(tx.amount, 0) THEN FALSE
        ELSE IF tx.kind \in {"TRANSFER", "SWAP", "STAKE"} THEN
            IF from_idx < 0 THEN FALSE
            ELSE IF FLt(b.wallets[PyAt(b.wallets, from_idx)].balances[tx.token_index + 1],
                        tx.amount) THEN FALSE
            ELSE IF FLe(tx.amount, 0) THEN FALSE
            ELSE TRUE
        ELSE IF tx.kind = "MINT" THEN
            IF to_idx < 0 THEN FALSE
            ELSE IF FLe(tx.amount, 0) THEN FALSE
            ELSE TRUE
        ELSE IF tx.kind = "BURN" THEN
            IF from_idx < 0 THEN FALSE
            ELSE IF FLt(b.wallets[PyAt(b.wallets, from_idx)].balances[tx.token_index + 1],
                        tx.amount) THEN FALSE
            ELSE IF FLe(tx.amount, 0) THEN FALSE
            ELSE TRUE
        ELSE TRUE

\* bc.wallets[idx].balances[token_index] += delta
AddBalance(b, idx, token_index, delta) ==
    [b EXCEPT !.wallets[PyAt(b.wallets, idx)].balances[token_index + 1] = FAdd(@, delta)]

\* Mutant of _apply_transaction: a MINT debits the sender as a TRANSFER does.
_apply_transaction_mint_debits(b, tx) ==
    LET f == _find_or_create_wallet(b, tx.from_address)
        t == _find_or_create_wallet(f.bc, tx.to_address)
    IN  IF tx.kind \in {"TRANSFER", "SWAP", "MINT"}
        THEN AddBalance(AddBalance(t.bc, f.ret, tx.token_index, FNeg(tx.amount)),
                        t.ret, tx.token_index, tx.amount)
        ELSE IF tx.kind = "BURN"
        THEN AddBalance(t.bc, f.ret, tx.token_index, FNeg(tx.amount))
        ELSE t.bc

\* Mutant of _apply_transaction: a STAKE debits the sender as a BURN does.
_apply_transaction_stake_debits(b, tx) ==
    LET f == _find_or_create_wallet(b, tx.from_address)
        t == _find_or_create_wallet(f.bc, tx.to_address)
    IN  IF tx.kind \in {"TRANSFER", "SWAP"}
        THEN AddBalance(AddBalance(t.bc, f.ret, tx.token_index, FNeg(tx.amount)),
                        t.ret, tx.token_index, tx.amount)
        ELSE IF tx.kind = "MINT"
        THEN AddBalance(t.bc, t.ret, tx.token_index, tx.amount)
        ELSE IF tx.kind \in {"BURN", "STAKE"}
        THEN AddBalance(t.bc, f.ret, tx.token_index, FNeg(tx.amount))
        ELSE t.bc

\* Mutant of _apply_transaction: a TRANSFER or SWAP whose recipient wallet
\* could not be created (index -1) is debited but not credited.
_apply_transaction_no_credit(b, tx) ==
    LET f == _find_or_create_wallet(b, tx.from_address)
        t == _find_or_create_wallet(f.bc, tx.to_address)
    IN  IF tx.kind \in {"TRANSFER", "SWAP"}
        THEN IF t.ret < 0
             THEN AddBalance(t.bc, f.ret, tx.token_index, FNeg(tx.amount))
             ELSE AddBalance(AddBalance(t.bc, f.ret, tx.token_index, FNeg(tx.amount)),
                             t.ret, tx.token_index, tx.amount)
        ELSE IF tx.kind = "MINT"
        THEN AddBalance(t.bc, t.ret, tx.token_index, tx.amount)
        ELSE IF tx.kind = "BURN"
        THEN AddBalance(t.bc, f.ret, tx.token_index, FNeg(tx.amount))
        ELSE t.bc

_apply_transaction(b, tx) ==
    LET f == _find_or_create_wallet(b, tx.from_address)
        t == _find_or_create_wallet(f.bc, tx.to_address)
        from_idx == f.ret
        to_idx == t.ret
    IN  IF tx.kind \in {"TRANSFER", "SWAP"}
        THEN AddBalance(AddBalance(t.bc, from_idx, tx.token_index, FNeg(tx.amount)),
                        to_idx, tx.token_index, tx.amount)
        ELSE IF tx.kind = "MINT"
        THEN AddBalance(t.bc, to_idx, tx.token_index, tx.amount)
        ELSE IF tx.kind = "BURN"
        THEN AddBalance(t.bc, from_idx, tx.token_index, FNeg(tx.amount))
        ELSE t.bc

\* Mutant of ApplyAll: the transactions are applied last to first.
RECURSIVE ApplyAll_reversed(_, _)
ApplyAll_reversed(b, txs) ==
    IF txs = <<>> THEN b
    ELSE _apply_transaction(ApplyAll_reversed(b, Tail(txs)), Head(txs))

\* for tx in block.txs: _apply_transaction(bc, tx)
RECURSIVE ApplyAll(_, _)
ApplyAll(b, txs) ==
    IF txs = <<>> THEN b
    ELSE ApplyAll(_apply_transaction(b, Head(txs)), Tail(txs))

(***************************************************************************)
(* Pool operations (ELTT-liquidity-pools.py, ELTT-launcher.py).  Both      *)
(* modules define add_liquidity and remove_liquidity with the same         *)
(* statements; the launcher tests the pool index itself, the pool module   *)
(* through get_pool.                                                       *)
(***************************************************************************)
\* get_pool: <<>> stands for None, <<pool>> for the pool.
get_pool(b, pool_index) ==
    IF pool_index < 0 \/ pool_index >= Len(b.pools) THEN <<>> ELSE <<b.pools[pool_index + 1]>>

\* Result: the new aggregate; add_liquidity returns None.
add_liquidity(b, pool_index, amount_x, amount_y) ==
    IF pool_index < 0 \/ pool_index >= Len(b.pools)
    THEN [bc |-> b, ret |-> "None"]
    ELSE [bc |-> [b EXCEPT !.pools[pool_index + 1].reserve_x = FAdd(@, amount_x),
                           !.pools[pool_index + 1].reserve_y = FAdd(@, amount_y)],
          ret |-> "None"]

\* pool.reserve -= share, then a reserve below 0.0 is set to 0.0.
Clamped(reserve, share) ==
    LET r == FAdd(reserve, FNeg(share)) IN IF FLt(r, 0) THEN 0 ELSE r

\* Result: the new aggregate; remove_liquidity returns None.
remove_liquidity(b, pool_index, share_x, share_y) ==
    IF get_pool(b, pool_index) = <<>>
    THEN [bc |-> b, ret |-> "None"]
    ELSE [bc |-> [b EXCEPT !.pools[pool_index + 1].reserve_x = Clamped(@, share_x),
                           !.pools[pool_index + 1].reserve_y = Clamped(@, share_y)],
          ret |-> "None"]

(***************************************************************************)
(* Block validation and chain construction.                                *)
(***************************************************************************)
\* Mutant of HeaderOk: the stored hash is not compared with the recomputed one.
HeaderOk_no_hash(b, block) ==
    IF block.index = 0
    THEN block.prev_hash = ZeroHash
    ELSE /\ b.blocks # <<>>
         /\ block.index = b.blocks[Len(b.blocks)].index + 1
         /\ block.prev_hash = b.blocks[Len(b.blocks)].hash

\* Mutant of HeaderOk: on an empty chain a block of any index is taken for the
\* genesis block.
HeaderOk_any_first(b, block) ==
    /\ IF block.index = 0 \/ b.blocks = <<>>
       THEN block.prev_hash = ZeroHash
       ELSE /\ block.index = b.blocks[Len(b.blocks)].index + 1
            /\ block.prev_hash = b.blocks[Len(b.blocks)].hash
    /\ compute_block_hash(Block(block.index, block.timestamp, block.prev_hash,
                                <<>>, block.txs)) = block.hash

\* The header checks of _validate_block (linkage, then the recomputed hash).
HeaderOk(b, block) ==
    /\ IF block.index = 0
       THEN block.prev_hash = ZeroHash
       ELSE /\ b.blocks # <<>>
            /\ block.index = b.blocks[Len(b.blocks)].index + 1
            /\ block.prev_hash = b.blocks[Len(b.blocks)].hash
    /\ compute_block_hash(Block(block.index, block.timestamp, block.prev_hash,
                                <<>>, block.txs)) = block.hash

\* Mutant of _validate_block: each transaction is validated against the state
\* that the transactions before it would leave.
_validate_block_sequential(b, block) ==
    /\ HeaderOk(b, block)
    /\ \A i \in 1..Len(block.txs) :
          _validate_transaction(ApplyAll(b, SubSeq(block.txs, 1, i - 1)), block.txs[i])

\* Mutant of _validate_block: only the first transaction is validated.
_validate_block_first_tx(b, block) ==
    /\ HeaderOk(b, block)
    /\ block.txs # <<>> => _validate_transaction(b, block.txs[1])

_validate_block(b, block) ==
    /\ HeaderOk(b, block)
    /\ \A i \in 1..Len(block.txs) : _validate_transaction(b, block.txs[i])

\* Mutant of append_block: an accepted block takes the place of the last block.
append_block_replaces(b, block) ==
    IF ~ _validate_block(b, block)
    THEN [bc |-> b, ret |-> FALSE]
    ELSE [bc |-> ApplyAll([b EXCEPT !.blocks =
                    IF @ = <<>> THEN <<block>> ELSE [@ EXCEPT ![Len(@)] = block]], block.txs),
          ret |-> TRUE]

\* Result: the new aggregate and the returned boolean.
append_block(b, block) ==
    IF ~ _validate_block(b, block)
    THEN [bc |-> b, ret |-> FALSE]
    ELSE [bc |-> ApplyAll([b EXCEPT !.blocks = Append(@, block)], block.txs),
          ret |-> TRUE]

(***************************************************************************)
(* Genesis.                                                                *)
(***************************************************************************)
init_blockchain ==
    LET b0 == Blockchain(<<>>, <<>>, <<>>, <<>>, <<>>)
        b1 == add_token_type(b0, <<84, 84, 84, 67>>, <<84, 84, 84, 67>>, 8, "TTTC", 75).bc
        b2 == add_token_type(b1, <<69, 76, 84, 84>>, <<69, 76, 84, 84>>, 8, "ELTT", 75).bc
        b3 == add_token_type(b2, <<69, 76, 84, 67>>, <<69, 76, 84, 67>>, 8, "ELTC", 75).bc
    IN  b3

build_genesis_block(owner_address, timestamp) ==
    LET block == Block(0, timestamp, ZeroHash, <<>>, <<>>)
    IN  [block EXCEPT !.hash = compute_block_hash(block)]

\* Result: the new aggregate; create_genesis returns None.
create_genesis(b, owner_address, timestamp) ==
    [bc |-> append_block(b, build_genesis_block(owner_address, timestamp)).bc,
     ret |-> "None"]

(***************************************************************************)
(* The Full-State Validator (ELTT-Validator.py).  An error is the name of  *)
(* the ValidatorError member, "None" stands for Python's None.             *)
(***************************************************************************)
StakingPosition(owner, token_index, amount, start_timestamp, lock_until, accumulated_rewards) ==
    [owner |-> owner, token_index |-> token_index, amount |-> amount,
     start_timestamp |-> start_timestamp, lock_until |-> lock_until,
     accumulated_rewards |-> accumulated_rewards]

TxKind ==
    {"TRANSFER", "MINT", "BURN", "CREATE_TOKEN", "CREATE_POOL", "ADD_LIQUIDITY",
     "REMOVE_LIQUIDITY", "STAKE", "UNSTAKE", "CLAIM_REWARDS", "SWAP",
     "PROFILE_UPDATE", "GOVERNANCE_PROPOSAL"}

ValidatorError ==
    {"OK", "NULL_BLOCKCHAIN", "NO_BLOCKS", "GENESIS_PREV_HASH", "BLOCK_INDEX_SEQUENCE",
     "BLOCK_PREV_HASH_MISMATCH", "BLOCK_HASH_MISMATCH", "TIMESTAMP_NON_MONOTONIC",
     "TOKEN_SYMBOL_DUPLICATE", "WALLET_ADDRESS_INVALID", "WALLET_BALANCE_NEGATIVE",
     "POOL_INDEX_INVALID", "POOL_RESERVE_NEGATIVE", "STAKE_OWNER_INVALID",
     "STAKE_AMOUNT_NEGATIVE", "STAKE_TIME_INCONSISTENT", "TX_TOKEN_INDEX_INVALID",
     "TX_AMOUNT_NEGATIVE", "TX_KIND_INVALID", "TX_REPLAY_DUPLICATE_IN_BLOCK", "UNKNOWN"}

\* The error of the first element of a loop that returns one.
FirstError(errs) ==
    IF \E i \in 1..Len(errs) : errs[i] # "None"
    THEN errs[CHOOSE i \in 1..Len(errs) :
                 /\ errs[i] # "None"
                 /\ \A j \in 1..(i - 1) : errs[j] = "None"]
    ELSE "None"

\* Python's hash of a non-negative number: the value modulo the hash modulus
\* (2^61 - 1 in CPython, 31 here, so that colliding amounts stay small).
PyHashModulus == 31

PyHashNumber(x) == x % PyHashModulus

\* hash((from, to, token_index, amount, kind.value, memo)): a tuple's hash is
\* computed from its elements' hashes; strings and the combination of the
\* elements are taken as free of collisions.
TxFingerprint(tx) ==
    <<tx.from_address, tx.to_address, PyHashNumber(tx.token_index),
      PyHashNumber(tx.amount), tx.kind, tx.memo>>

\* Mutant of _is_address_valid: an address of ELTT_MAX_ADDRESS_LEN characters
\* is taken as valid.
_is_address_valid_long(addr) ==
    IF Len(addr) = 0 \/ Len(addr) > ELTT_MAX_ADDRESS_LEN THEN FALSE
    ELSE \A i \in 1..Len(addr) : ~ (addr[i] < 32 \/ addr[i] = 127)

\* Addresses are strings; None is not among the inputs.
_is_address_valid(addr) ==
    IF Len(addr) = 0 \/ Len(addr) >= ELTT_MAX_ADDRESS_LEN THEN FALSE
    ELSE \A i \in 1..Len(addr) : ~ (addr[i] < 32 \/ addr[i] = 127)

_check_token_symbols_unique(state) ==
    \A i \in 1..Len(state.token_types) : \A j \in 1..Len(state.token_types) :
        state.token_types[i].symbol = state.token_types[j].symbol => i = j

_check_wallets(state) ==
    LET err(w) ==
            IF ~ _is_address_valid(w.address) THEN "WALLET_ADDRESS_INVALID"
            ELSE IF w.token_count > Len(state.token_types) THEN "TX_TOKEN_INDEX_INVALID"
            ELSE IF \E k \in 1..Len(Take(w.balances, w.token_count)) : FLt(w.balances[k], 0)
                 THEN "WALLET_BALANCE_NEGATIVE"
            ELSE "None"
    IN  FirstError([i \in 1..Len(state.wallets) |-> err(state.wallets[i])])

\* Mutant of _check_pools: the index of the LP token is not checked.
_check_pools_no_lp(state) ==
    LET token_len == Len(state.token_types)
        err(p) ==
            IF p.token_x_index < 0 \/ p.token_x_index >= token_len THEN "POOL_INDEX_INVALID"
            ELSE IF p.token_y_index < 0 \/ p.token_y_index >= token_len THEN "POOL_INDEX_INVALID"
            ELSE IF FLt(p.reserve_x, 0) \/ FLt(p.reserve_y, 0) THEN "POOL_RESERVE_NEGATIVE"
            ELSE "None"
    IN  FirstError([i \in 1..Len(state.pools) |-> err(state.pools[i])])

_check_pools(state) ==
    LET token_len == Len(state.token_types)
        err(p) ==
            IF p.token_x_index < 0 \/ p.token_x_index >= token_len THEN "POOL_INDEX_INVALID"
            ELSE IF p.token_y_index < 0 \/ p.token_y_index >= token_len THEN "POOL_INDEX_INVALID"
            ELSE IF p.lp_token_index < 0 \/ p.lp_token_index >= token_len THEN "POOL_INDEX_INVALID"
            ELSE IF FLt(p.reserve_x, 0) \/ FLt(p.reserve_y, 0) THEN "POOL_RESERVE_NEGATIVE"
            ELSE "None"
    IN  FirstError([i \in 1..Len(state.pools) |-> err(state.pools[i])])

\* Mutant of _check_stakes: the two timestamps are not compared.
_check_stakes_no_time(state) ==
    LET token_len == Len(state.token_types)
        err(st) ==
            IF ~ _is_address_valid(st.owner) THEN "STAKE_OWNER_INVALID"
            ELSE IF st.token_index < 0 \/ st.token_index >= token_len THEN "TX_TOKEN_INDEX_INVALID"
            ELSE IF FLt(st.amount, 0) THEN "STAKE_AMOUNT_NEGATIVE"
            ELSE "None"
    IN  FirstError([i \in 1..Len(state.stakes) |-> err(state.stakes[i])])

_check_stakes(state) ==
    LET token_len == Len(state.token_types)
        err(st) ==
            IF ~ _is_address_valid(st.owner) THEN "STAKE_OWNER_INVALID"
            ELSE IF st.token_index < 0 \/ st.token_index >= token_len THEN "TX_TOKEN_INDEX_INVALID"
            ELSE IF FLt(st.amount, 0) THEN "STAKE_AMOUNT_NEGATIVE"
            ELSE IF st.lock_until < st.start_timestamp THEN "STAKE_TIME_INCONSISTENT"
            ELSE "None"
    IN  FirstError([i \in 1..Len(state.stakes) |-> err(state.stakes[i])])

\* seen_hashes holds the fingerprints of the transactions before tx.
_check_block_transactions(state, blk) ==
    LET err(i) ==
            LET tx == blk.txs[i]
            IN  IF tx.token_index < 0 \/ tx.token_index >= Len(state.token_types)
                THEN "TX_TOKEN_INDEX_INVALID"
                ELSE IF FLt(tx.amount, 0) THEN "TX_AMOUNT_NEGATIVE"
                ELSE IF tx.kind \notin TxKind THEN "TX_KIND_INVALID"
                ELSE IF ~ _is_address_valid(tx.from_address) THEN "WALLET_ADDRESS_INVALID"
                ELSE IF ~ _is_address_valid(tx.to_address) THEN "WALLET_ADDRESS_INVALID"
                ELSE IF \E j \in 1..(i - 1) : TxFingerprint(blk.txs[j]) = TxFingerprint(tx)
                     THEN "TX_REPLAY_DUPLICATE_IN_BLOCK"
                ELSE "None"
    IN  IF Len(blk.txs) > ELTT_MAX_TX_PER_BLOCK THEN "UNKNOWN"
        ELSE FirstError([i \in 1..Len(blk.txs) |-> err(i)])

\* Mutant of _check_chain: the stored hash is compared with the recomputed one.
_check_chain_recompute(state) ==
    LET err(i) ==
            LET blk == state.blocks[i]
                link == IF i = 1
                        THEN IF blk.prev_hash # ZeroHash THEN "GENESIS_PREV_HASH" ELSE "None"
                        ELSE IF blk.index # state.blocks[i - 1].index + 1
                             THEN "BLOCK_INDEX_SEQUENCE"
                        ELSE IF blk.prev_hash # state.blocks[i - 1].hash
                             THEN "BLOCK_PREV_HASH_MISMATCH"
                        ELSE "None"
            IN  IF link # "None" THEN link
                ELSE IF blk.hash # compute_block_hash(blk) THEN "BLOCK_HASH_MISMATCH"
                ELSE IF i > 1 /\ blk.timestamp < state.blocks[i - 1].timestamp
                     THEN "TIMESTAMP_NON_MONOTONIC"
                ELSE _check_block_transactions(state, blk)
    IN  IF state.blocks = <<>> THEN "NO_BLOCKS"
        ELSE FirstError([i \in 1..Len(state.blocks) |-> err(i)])

\* last_ts is the timestamp of the block before blk.
\* Mutant of _check_chain: a block with the timestamp of its predecessor is
\* reported as well.
_check_chain_strict(state) ==
    LET err(i) ==
            LET blk == state.blocks[i]
                link == IF i = 1
                        THEN IF blk.prev_hash # ZeroHash THEN "GENESIS_PREV_HASH" ELSE "None"
                        ELSE IF blk.index # state.blocks[i - 1].index + 1
                             THEN "BLOCK_INDEX_SEQUENCE"
                        ELSE IF blk.prev_hash # state.blocks[i - 1].hash
                             THEN "BLOCK_PREV_HASH_MISMATCH"
                        ELSE "None"
            IN  IF link # "None" THEN link
                ELSE IF i > 1 /\ blk.timestamp <= state.blocks[i - 1].timestamp
                     THEN "TIMESTAMP_NON_MONOTONIC"
                ELSE _check_block_transactions(state, blk)
    IN  IF state.blocks = <<>> THEN "NO_BLOCKS"
        ELSE FirstError([i \in 1..Len(state.blocks) |-> err(i)])

_check_chain(state) ==
    LET err(i) ==
            LET blk == state.blocks[i]
                link == IF i = 1
                        THEN IF blk.prev_hash # ZeroHash THEN "GENESIS_PREV_HASH" ELSE "None"
                        ELSE IF blk.index # state.blocks[i - 1].index + 1
                             THEN "BLOCK_INDEX_SEQUENCE"
                        ELSE IF blk.prev_hash # state.blocks[i - 1].hash
                             THEN "BLOCK_PREV_HASH_MISMATCH"
                        ELSE "None"
            IN  IF link # "None" THEN link
                ELSE IF i > 1 /\ blk.timestamp < state.blocks[i - 1].timestamp
                     THEN "TIMESTAMP_NON_MONOTONIC"
                ELSE _check_block_transactions(state, blk)
    IN  IF state.blocks = <<>> THEN "NO_BLOCKS"
        ELSE FirstError([i \in 1..Len(state.blocks) |-> err(i)])

\* Mutant of validate_blockchain: the chain is checked first.
validate_blockchain_chain_first(state) ==
    IF _check_chain(state) # "None" THEN _check_chain(state)
    ELSE IF ~ _check_token_symbols_unique(state) THEN "TOKEN_SYMBOL_DUPLICATE"
    ELSE IF _check_wallets(state) # "None" THEN _check_wallets(state)
    ELSE IF _check_pools(state) # "None" THEN _check_pools(state)
    ELSE IF _check_stakes(state) # "None" THEN _check_stakes(state)
    ELSE "OK"

\* The state is a snapshot; None is not among the inputs.
validate_blockchain(state) ==
    IF ~ _check_token_symbols_unique(state) THEN "TOKEN_SYMBOL_DUPLICATE"
    ELSE IF _check_wallets(state) # "None" THEN _check_wallets(state)
    ELSE IF _check_pools(state) # "None" THEN _check_pools(state)
    ELSE IF _check_stakes(state) # "None" THEN _check_stakes(state)
    ELSE IF _check_chain(state) # "None" THEN _check_chain(state)
    ELSE "OK"

(***************************************************************************)
(* The callers' inputs.                                                    *)
(***************************************************************************)
AddrA == <<65>>
AddrB == <<66>>
AddrC == <<67>>

Addresses == {AddrA, AddrB, AddrC}

\* A digest that is neither a block's hash nor the zero hash.
BogusHash == <<2>>

\* A block with the hash an honest builder stores (as build_genesis_block does).
Sealed(block) == [block EXCEPT !.hash = compute_block_hash(block)]

LastHash(b) == IF b.blocks = <<>> THEN ZeroHash ELSE b.blocks[Len(b.blocks)].hash

NextIndex(b) == IF b.blocks = <<>> THEN 0 ELSE b.blocks[Len(b.blocks)].index + 1

\* All lists of at most two transactions of S.
TxLists(S) == {<<>>} \cup {<<t>> : t \in S} \cup {<<t, u>> : t \in S, u \in S}

\* Ledger transactions: one unit of token 0 between A and B, every balance-
\* relevant kind and one kind without balance effect.
LedgerKinds == {"TRANSFER", "SWAP", "MINT", "BURN", "PROFILE_UPDATE"}

LedgerTxs ==
    {Transaction(p[1], p[2], 1, 0, k, <<>>) :
        p \in {<<AddrA, AddrB>>, <<AddrB, AddrA>>}, k \in LedgerKinds}

\* Candidate blocks of the ledger specification: the header continues the
\* chain; the stored hash is the recomputed one or a wrong one.
LedgerBlocks(b) ==
    {IF good
     THEN Sealed(Block(NextIndex(b), Len(b.blocks), LastHash(b), <<>>, txs))
     ELSE Block(NextIndex(b), Len(b.blocks), LastHash(b), BogusHash, txs) :
        good \in BOOLEAN, txs \in TxLists(LedgerTxs)}

\* The token type a caller adds.
NewTokens == {TokenType(<<76, 80>>, <<76, 80>>, 8, "LP", 75)}

Request(op, arg) == [op |-> op, arg |-> arg, ret |-> "pending"]

NoCall == [op |-> "none", arg |-> <<>>, ret |-> "none"]

LedgerRequests(b) ==
    {Request("append_block", blk) : blk \in
        IF Len(b.blocks) < MaxBlocks THEN LedgerBlocks(b) ELSE {}}
    \cup {Request("create_wallet", a) : a \in {AddrA, AddrC}}
    \cup {Request("add_token_type", t) : t \in NewTokens}

\* Candidate blocks of the chain specification: every combination of a right
\* or wrong index, previous hash and stored hash, two timestamps, and an
\* empty, a valid or an invalid transaction list.
ChainIndices(b) == {i \in {0, NextIndex(b) - 1, NextIndex(b), NextIndex(b) + 1} : i >= 0}

ChainPrevHashes(b) ==
    {ZeroHash, BogusHash, LastHash(b)}
    \cup {b.blocks[i].hash : i \in 1..Len(b.blocks)}

ChainTxLists ==
    {<<>>,
     <<Transaction(AddrA, AddrB, 0, 0, "PROFILE_UPDATE", <<>>)>>,
     <<Transaction(AddrA, AddrB, 1, 0, "TRANSFER", <<>>)>>,
     [i \in 1..(ELTT_MAX_TX_PER_BLOCK + 1) |->
         Transaction(AddrA, AddrB, 0, 0, "PROFILE_UPDATE", <<i>>)]}

\* Transaction lists put in the place of an accepted block's list.
ReplacementTxLists ==
    {<<Transaction(AddrA, a, 0, 0, "PROFILE_UPDATE", m)>> : a \in {AddrB, AddrC}, m \in {<<>>, <<77>>}}
    \cup {<<>>}

ChainBlocks(b) ==
    {IF good THEN Sealed(Block(i, ts, p, <<>>, txs)) ELSE Block(i, ts, p, h, txs) :
        good \in BOOLEAN, i \in ChainIndices(b), ts \in {0, 1},
        p \in ChainPrevHashes(b), h \in {BogusHash}, txs \in ChainTxLists}

ChainRequests(b) ==
    {Request("append_block", blk) : blk \in
        IF Len(b.blocks) < MaxChain THEN ChainBlocks(b) ELSE {}}
    \cup {Request("create_genesis", <<AddrA, ts>>) : ts \in
        IF Len(b.blocks) < MaxChain THEN {0, 1} ELSE {}}
    \cup {Request("create_pool", <<0, 1, 2>>) : x \in
        IF Len(b.pools) < MaxPools THEN {0} ELSE {}}

\* Requests of the registry specification: token types, wallets, pools and
\* blocks that mint (one transaction) or create wallets on demand (up to two
\* transactions, for two addresses or for one address as sender and recipient).
OnDemandTxs ==
    {Transaction(AddrB, AddrC, 0, 0, "PROFILE_UPDATE", <<>>),
     Transaction(AddrC, AddrC, 0, 0, "PROFILE_UPDATE", <<>>)}

RegistryTxs ==
    {Transaction(a, a, 1, k, "MINT", <<>>) : a \in {AddrA, AddrB}, k \in {0, 3}}
    \cup OnDemandTxs

RegistryBlocks(b) ==
    {Sealed(Block(NextIndex(b), Len(b.blocks), LastHash(b), <<>>, txs)) :
        txs \in {<<t>> : t \in RegistryTxs} \cup TxLists(OnDemandTxs)}

RegistryRequests(b) ==
    {Request("append_block", blk) : blk \in
        IF Len(b.blocks) < MaxBlocks THEN RegistryBlocks(b) ELSE {}}
    \cup {Request("create_wallet", a) : a \in Addresses}
    \cup {Request("add_token_type", t) : t \in NewTokens}
    \cup {Request("create_pool", <<0, 1, 2>>) : x \in
        IF Len(b.pools) < MaxPools THEN {0} ELSE {}}

\* Requests of the pool specification: pools are created, and liquidity is
\* added and removed with negative, zero, positive and not-a-number amounts
\* and pool indices in and out of range, while the reserves are small.
PoolAmounts == {-1, 0, 1, 2, NaN}

ReservesSmall(b) ==
    \A i \in 1..Len(b.pools) :
       \A r \in {b.pools[i].reserve_x, b.pools[i].reserve_y} :
          r = NaN \/ (0 - MaxReserve <= r /\ r <= MaxReserve)

PoolRequests(b) ==
    {Request("create_pool", <<0, 1, 2>>) : x \in
        IF Len(b.pools) < MaxPools THEN {0} ELSE {}}
    \cup {Request(op, <<i, x, y>>) :
            op \in IF ReservesSmall(b) THEN {"add_liquidity", "remove_liquidity"} ELSE {},
            i \in (-1)..MaxPools, x \in PoolAmounts, y \in {0, 1}}

\* Requests of the history specification: every operation on the aggregate.
\* Blocks with a right or wrong index, previous hash and stored hash, empty or
\* minting; genesis blocks; a wallet, a token type, a pool, added and removed
\* liquidity; the validator.
HistoryBlocks(b) ==
    {IF good THEN Sealed(Block(i, 0, p, <<>>, txs)) ELSE Block(i, 0, p, BogusHash, txs) :
        good \in BOOLEAN, i \in {0, NextIndex(b)}, p \in {ZeroHash, LastHash(b)},
        txs \in {<<>>, <<Transaction(AddrA, AddrA, 1, 0, "MINT", <<>>)>>}}

HistoryRequests(b) ==
    {Request("append_block", blk) : blk \in
        IF Len(b.blocks) < MaxChain THEN HistoryBlocks(b) ELSE {}}
    \cup {Request("create_genesis", <<AddrA, ts>>) : ts \in
        IF Len(b.blocks) < MaxChain THEN {0} ELSE {}}
    \cup {Request("create_wallet", AddrA)}
    \cup {Request("add_token_type", t) : t \in NewTokens}
    \cup {Request("create_pool", <<0, 1, 2>>) : x \in
        IF Len(b.pools) < MaxPools THEN {0} ELSE {}}
    \cup {Request(op, <<i, 1, 1>>) :
            op \in IF ReservesSmall(b) THEN {"add_liquidity", "remove_liquidity"} ELSE {},
            i \in {0, MaxPools}}
    \cup {Request("validate_blockchain", <<>>)}

\* Requests of the audit specification: the engine builds a chain from
\* create_genesis, add_token_type and append_block of correctly linked and
\* sealed blocks (older, equal and newer timestamps; distinct and repeated
\* transactions; an empty sender address; a token type with a symbol already
\* in use), and any state with a genesis block is handed to the validator.
EngineTxLists ==
    {<<>>,
     <<Transaction(AddrA, AddrB, 0, 0, "PROFILE_UPDATE", <<>>)>>,
     <<Transaction(AddrA, AddrA, 1, 0, "MINT", <<>>)>>,
     <<Transaction(AddrA, AddrB, 1, 0, "TRANSFER", <<>>)>>,
     <<Transaction(AddrA, AddrB, 0, 0, "PROFILE_UPDATE", <<>>),
       Transaction(AddrA, AddrB, 0, 0, "PROFILE_UPDATE", <<77>>)>>,
     <<Transaction(AddrA, AddrB, 0, 0, "PROFILE_UPDATE", <<>>),
       Transaction(AddrA, AddrB, 0, 0, "PROFILE_UPDATE", <<>>)>>,
     <<Transaction(<<>>, AddrB, 0, 0, "PROFILE_UPDATE", <<>>)>>}

EngineTokens ==
    NewTokens \cup {TokenType(<<88>>, init_blockchain.token_types[2].symbol, 8, "GENERIC", 75)}

EngineRequests(b) ==
    {Request("create_genesis", <<AddrA, ts>>) : ts \in
        IF b.blocks = <<>> THEN {0, 1} ELSE {}}
    \cup {Request("append_block", Sealed(Block(NextIndex(b), ts, LastHash(b), <<>>, txs))) :
            ts \in IF b.blocks # <<>> /\ Len(b.blocks) < MaxChain
                   THEN {b.blocks[Len(b.blocks)].timestamp + d : d \in {-1, 0, 1}}
                   ELSE {},
            txs \in EngineTxLists}
    \cup {Request("add_token_type", t) : t \in EngineTokens}
    \cup {Request("validate_blockchain", <<>>) : x \in
        IF b.blocks # <<>> THEN {0} ELSE {}}

\* Two callers of append_block on one aggregate.  The aggregate they start
\* from has a genesis block and the wallets A, holding 2 of token 0, and B.
Writers == {1, 2}

WriterStart ==
    LET s1 == create_wallet(init_blockchain, AddrA).bc
        s2 == append_block(s1, Sealed(Block(0, 0, ZeroHash, <<>>,
                  <<Transaction(AddrA, AddrA, 2, 0, "MINT", <<>>)>>))).bc
    IN  create_wallet(s2, AddrB).bc

\* The blocks a writer submits: the next block of the chain as the writer
\* sees it, empty or with one transfer that A's balance covers.
WriterBlocks(b) ==
    {Sealed(Block(NextIndex(b), 0, LastHash(b), <<>>, txs)) :
        txs \in {<<>>} \cup {<<Transaction(AddrA, AddrB, a, 0, "TRANSFER", <<>>)>> : a \in {1, 2}}}

\* A writer's call: the block, the result, the number of transactions already
\* applied, and, for the properties, the aggregate that _validate_block saw
\* and whether no other writer has changed the aggregate since.
WriterCall(block) ==
    [op |-> "append_block", arg |-> block, ret |-> "pending", applied |-> 0,
     seen |-> <<>>, clean |-> TRUE]

NoWriterCall ==
    [op |-> "none", arg |-> <<>>, ret |-> "none", applied |-> 0, seen |-> <<>>, clean |-> TRUE]

(***************************************************************************)
(* The state machine.                                                      *)
(***************************************************************************)
\* Aggregates on which single transactions are validated and applied: the
\* initial one, with a wallet for A, with 2 of token 0 minted to A, with a
\* second wallet (for B or for C, the wallet list then being full), with a pool.
TxStates ==
    LET s0 == init_blockchain
        s1 == create_wallet(s0, AddrA).bc
        s2 == append_block(s1, Sealed(Block(0, 0, ZeroHash, <<>>,
                  <<Transaction(AddrA, AddrA, 2, 0, "MINT", <<>>)>>))).bc
        s3 == create_wallet(s2, AddrB).bc
        s4 == create_wallet(s2, AddrC).bc
        s5 == create_pool(s3, 0, 1, 2).bc
    IN  {s0, s1, s2, s3, s4, s5}

\* Every kind, amounts around 0 and around the balance and the amount that is
\* not a number, token indices in and out of range, senders and recipients
\* with and without a wallet.
TxInputs ==
    {Transaction(f, t, a, k, kind, <<>>) :
        f \in {AddrA, AddrB}, t \in Addresses, a \in {-1, 0, 1, 2, 3, NaN},
        k \in {-1, 0, 1, 3}, kind \in TxKind}

TxRequests(b) ==
    {Request("_validate_transaction", tx) : tx \in TxInputs}
    \cup {Request("append_block",
                  Sealed(Block(NextIndex(b), 0, LastHash(b), <<>>, <<tx>>))) : tx \in TxInputs}

\* Transactions whose energy is computed: ASCII and non-ASCII strings, the
\* empty string, several amounts, token indices and kinds.
Alice == <<97, 108, 105, 99, 101>>
Bob == <<98, 111, 98>>

EnergyTxs ==
    {Transaction(f, t, a, k, kind, memo) :
        f \in {Alice, AddrA, <<233>>, <<>>}, t \in {Bob, <<128512>>},
        a \in {0, 1, 3, 1000}, k \in {0, 2},
        kind \in {"TRANSFER", "STAKE", "GOVERNANCE_PROPOSAL"},
        memo \in {<<>>, <<77>>, <<8364, 49>>}}

\* Snapshots handed to the validator: every combination of the token types,
\* wallets, pools, stakes and chains below.
SnapshotTokens ==
    {init_blockchain.token_types,
     <<init_blockchain.token_types[1], init_blockchain.token_types[2],
       TokenType(<<88>>, init_blockchain.token_types[1].symbol, 8, "GENERIC", 75)>>}

SnapshotWallets ==
    {<<>>} \cup
    {<<Wallet(a, 3, init_blockchain.token_types, bal)>> :
        a \in {AddrA}, bal \in {<<0, 0, 0>>, <<0, -1, 0>>}}
    \cup {<<Wallet(<<>>, 3, init_blockchain.token_types, <<0, 0, 0>>)>>}

GoodPool == LiquidityPool(0, 1, 5, 5, 2)

SnapshotPools ==
    LET bad_index == {[GoodPool EXCEPT !.token_x_index = -1],
                      [GoodPool EXCEPT !.token_y_index = 3],
                      [GoodPool EXCEPT !.lp_token_index = 3]}
        negative == {[GoodPool EXCEPT !.reserve_x = -1],
                     [GoodPool EXCEPT !.reserve_y = -1]}
        both == {[GoodPool EXCEPT !.token_x_index = 3, !.reserve_y = -1]}
        some == {GoodPool, [GoodPool EXCEPT !.lp_token_index = 3],
                 [GoodPool EXCEPT !.reserve_x = -1]}
    IN  {<<>>} \cup {<<p>> : p \in {GoodPool} \cup bad_index \cup negative \cup both}
        \cup {<<p, q>> : p \in some, q \in some}

GoodStake == StakingPosition(AddrA, 0, 1, 1, 2, 0)

SnapshotStakes ==
    LET some == {GoodStake, [GoodStake EXCEPT !.amount = -1],
                 [GoodStake EXCEPT !.lock_until = 0]}
    IN  {<<>>}
        \cup {<<st>> : st \in some \cup {[GoodStake EXCEPT !.owner = <<>>],
                                          [GoodStake EXCEPT !.token_index = 3],
                                          [GoodStake EXCEPT !.amount = -1, !.lock_until = 0]}}
        \cup {<<st, su>> : st \in some, su \in some}

\* One transaction, the six transactions that differ from it in one field, one
\* whose amount differs by the hash modulus, and two ill-formed ones.
SnapshotTx == Transaction(AddrA, AddrB, 1, 0, "TRANSFER", <<>>)

SnapshotTxVariants ==
    {[SnapshotTx EXCEPT !.from_address = AddrC], [SnapshotTx EXCEPT !.to_address = AddrC],
     [SnapshotTx EXCEPT !.amount = 2], [SnapshotTx EXCEPT !.token_index = 1],
     [SnapshotTx EXCEPT !.kind = "MINT"], [SnapshotTx EXCEPT !.memo = <<77>>],
     [SnapshotTx EXCEPT !.amount = 1 + PyHashModulus]}

SnapshotTxLists ==
    {<<>>, <<SnapshotTx>>, <<SnapshotTx, SnapshotTx>>,
     <<[SnapshotTx EXCEPT !.amount = -1]>>, <<[SnapshotTx EXCEPT !.token_index = 3]>>,
     [i \in 1..(ELTT_MAX_TX_PER_BLOCK + 1) |-> SnapshotTx]}
    \cup {<<SnapshotTx, t>> : t \in SnapshotTxVariants}

SnapshotChains ==
    LET first(txs) == Sealed(Block(0, 1, ZeroHash, <<>>, txs))
        second(g, txs) == Sealed(Block(1, 1, g.hash, <<>>, txs))
    IN  {<<>>}
        \cup {<<first(txs)>> : txs \in SnapshotTxLists}
        \cup {<<Sealed(Block(0, 1, BogusHash, <<>>, <<>>))>>}
        \cup {<<first(a), second(first(a), b)>> :
                 a \in {<<>>, <<SnapshotTx>>}, b \in {<<>>, <<SnapshotTx>>}}
        \cup {<<first(<<>>), blk>> : blk \in
                 {Sealed(Block(2, 1, first(<<>>).hash, <<>>, <<>>)),
                  Sealed(Block(1, 1, BogusHash, <<>>, <<>>)),
                  Sealed(Block(1, 0, first(<<>>).hash, <<>>, <<>>))}}
        \cup {<<Block(0, 1, ZeroHash, BogusHash, <<>>)>>,
              <<Block(0, 1, ZeroHash, BogusHash, <<>>),
                Sealed(Block(1, 1, BogusHash, <<>>, <<SnapshotTx>>))>>,
              <<first(<<>>), Block(1, 1, first(<<>>).hash, BogusHash, <<>>)>>}

\* Chains handed to the validator for its chain pass: one to three blocks, a
\* first block of index 0 or 5, every combination of three timestamps, a
\* second block with a right or wrong index and previous hash, and blocks
\* with a valid, an invalid or no transaction.
AuditTimestamps == {-1, 0, 1}

AuditTxLists == {<<>>, <<SnapshotTx>>, <<[SnapshotTx EXCEPT !.amount = -1]>>}

Extend(chain, step, ts, prev_hash, txs) ==
    Append(chain, Sealed(Block(chain[Len(chain)].index + step, ts, prev_hash, <<>>, txs)))

AuditChains ==
    LET ones == {<<Sealed(Block(f, ts, p, <<>>, txs))>> :
                    f \in {0, 5}, ts \in AuditTimestamps, p \in {ZeroHash},
                    txs \in AuditTxLists}
        twos == UNION {{Extend(c, step, ts, p, <<>>) :
                          step \in {1, 2}, ts \in AuditTimestamps,
                          p \in {c[1].hash, BogusHash}} : c \in ones}
        threes == {Extend(c, 1, ts, c[2].hash, txs) :
                    c \in twos, ts \in AuditTimestamps, txs \in {<<>>, <<SnapshotTx>>}}
    IN  {<<>>, <<Sealed(Block(0, 0, BogusHash, <<>>, <<>>))>>} \cup ones \cup twos \cup threes

AuditSnapshots ==
    {Blockchain(blocks, wallets, token_types, pools, stakes) :
        blocks \in AuditChains,
        wallets \in {<<>>, <<Wallet(AddrA, 3, init_blockchain.token_types, <<0, -1, 0>>)>>},
        token_types \in SnapshotTokens,
        pools \in {<<>>, <<GoodPool>>},
        stakes \in {<<>>, <<[GoodStake EXCEPT !.lock_until = 0]>>}}

\* Wallets handed to the validator for its wallet pass: addresses that are
\* empty, of 63 and of 64 characters, with and without control characters;
\* token counts up to one more than the token types; balances that are
\* negative, or not a number, inside and outside the token count.
AuditAddresses ==
    {AddrA, <<>>, <<32>>, <<31>>, <<127>>, <<65, 10>>,
     [i \in 1..(ELTT_MAX_ADDRESS_LEN - 1) |-> 65], [i \in 1..ELTT_MAX_ADDRESS_LEN |-> 65]}

AuditWallets ==
    LET one == {Wallet(a, n, init_blockchain.token_types, bal) :
                   a \in AuditAddresses, n \in {0, 1, 3, 4},
                   bal \in {<<0, 0, 0>>, <<0, -1, 0>>, <<-1, 0, 0>>, <<NaN, 0, 0>>}}
        some == {Wallet(AddrA, 3, init_blockchain.token_types, <<0, 0, 0>>),
                 Wallet(AddrA, 3, init_blockchain.token_types, <<0, -1, 0>>),
                 Wallet(AddrA, 1, init_blockchain.token_types, <<0, -1, 0>>),
                 Wallet(<<>>, 3, init_blockchain.token_types, <<0, 0, 0>>),
                 Wallet(AddrB, 4, init_blockchain.token_types, <<0, 0, 0>>)}
    IN  {<<>>} \cup {<<w>> : w \in one} \cup {<<w, x>> : w \in some, x \in some}

WalletSnapshots ==
    {Blockchain(blocks, wallets, token_types, pools, stakes) :
        blocks \in {<<>>, <<Sealed(Block(0, 0, ZeroHash, <<>>, <<>>))>>},
        wallets \in AuditWallets,
        token_types \in SnapshotTokens,
        pools \in {<<>>, <<[GoodPool EXCEPT !.reserve_x = -1]>>},
        stakes \in {<<>>}}

Snapshots ==
    {Blockchain(blocks, wallets, token_types, pools, stakes) :
        blocks \in SnapshotChains, wallets \in SnapshotWallets,
        token_types \in SnapshotTokens, pools \in SnapshotPools,
        stakes \in SnapshotStakes}

Init ==
    /\ bc = init_blockchain
    /\ pc = "idle"
    /\ call = NoCall

\* An idle caller submits the request r.
Submit(r) ==
    /\ call' = r
    /\ pc' = "called"
    /\ UNCHANGED bc

Call == pc = "idle" /\ \E r \in LedgerRequests(bc) : Submit(r)

CallChain == pc = "idle" /\ \E r \in ChainRequests(bc) : Submit(r)

CallRegistry == pc = "idle" /\ \E r \in RegistryRequests(bc) : Submit(r)

\* The result of the operation r, applied to the aggregate.
Finish(r) ==
    /\ bc' = r.bc
    /\ call' = [call EXCEPT !.ret = r.ret]
    /\ pc' = "returned"

AppendBlock ==
    /\ pc = "called" /\ call.op = "append_block"
    /\ Finish(append_block(bc, call.arg))

CreateGenesis ==
    /\ pc = "called" /\ call.op = "create_genesis"
    /\ Finish(create_genesis(bc, call.arg[1], call.arg[2]))

CreateWallet ==
    /\ pc = "called" /\ call.op = "create_wallet"
    /\ Finish(create_wallet(bc, call.arg))

AddTokenType ==
    /\ pc = "called" /\ call.op = "add_token_type"
    /\ Finish(add_token_type(bc, call.arg.name, call.arg.symbol, call.arg.decimals,
                             call.arg.kind, call.arg.energy_binding_factor))

CreatePool ==
    /\ pc = "called" /\ call.op = "create_pool"
    /\ Finish(create_pool(bc, call.arg[1], call.arg[2], call.arg[3]))

\* The caller takes the result.
Return ==
    /\ pc = "returned"
    /\ pc' = "idle"
    /\ call' = NoCall
    /\ UNCHANGED bc

\* The validator is given any of the snapshots.
InitValidator ==
    /\ bc \in Snapshots
    /\ pc = "idle"
    /\ call = NoCall

\* The validator is given any of the snapshots made for its chain pass.
InitValidatorChain ==
    /\ bc \in AuditSnapshots
    /\ pc = "idle"
    /\ call = NoCall

\* The validator is given any of the snapshots made for its wallet pass.
InitValidatorWallets ==
    /\ bc \in WalletSnapshots
    /\ pc = "idle"
    /\ call = NoCall

CallValidator == pc = "idle" /\ Submit(Request("validate_blockchain", <<>>))

\* Mutant of ValidateBlockchain: a snapshot that fails the check of its stakes
\* is repaired by dropping the stakes.
ValidateBlockchain_repairs ==
    /\ pc = "called" /\ call.op = "validate_blockchain"
    /\ Finish([bc |-> IF _check_stakes(bc) = "None" THEN bc ELSE [bc EXCEPT !.stakes = <<>>],
               ret |-> validate_blockchain(bc)])

\* validate_blockchain reads the snapshot and changes nothing.
ValidateBlockchain ==
    /\ pc = "called" /\ call.op = "validate_blockchain"
    /\ Finish([bc |-> bc, ret |-> validate_blockchain(bc)])

\* One transaction is validated, or submitted in a block of its own, on one of
\* the aggregates of TxStates.
InitTx ==
    /\ bc \in TxStates
    /\ pc = "idle"
    /\ call = NoCall

CallTx == pc = "idle" /\ bc \in TxStates /\ \E r \in TxRequests(bc) : Submit(r)

ValidateTransaction ==
    /\ pc = "called" /\ call.op = "_validate_transaction"
    /\ Finish([bc |-> bc, ret |-> _validate_transaction(bc, call.arg)])

CallEnergy == pc = "idle" /\ \E tx \in EnergyTxs : Submit(Request("compute_tx_energy", tx))

ComputeTxEnergy ==
    /\ pc = "called" /\ call.op = "compute_tx_energy"
    /\ Finish([bc |-> bc, ret |-> compute_tx_energy(call.arg)])

CallPool == pc = "idle" /\ \E r \in PoolRequests(bc) : Submit(r)

AddLiquidity ==
    /\ pc = "called" /\ call.op = "add_liquidity"
    /\ Finish(add_liquidity(bc, call.arg[1], call.arg[2], call.arg[3]))

RemoveLiquidity ==
    /\ pc = "called" /\ call.op = "remove_liquidity"
    /\ Finish(remove_liquidity(bc, call.arg[1], call.arg[2], call.arg[3]))

CallHistory == pc = "idle" /\ \E r \in HistoryRequests(bc) : Submit(r)

CallEngine == pc = "idle" /\ \E r \in EngineRequests(bc) : Submit(r)

\* append_block, statement by statement, for each of two writers.
InitWriters ==
    /\ bc = WriterStart
    /\ pc = [w \in Writers |-> "idle"]
    /\ call = [w \in Writers |-> NoWriterCall]

\* Writer w changes its own call to c; the calls in flight of the other
\* writers are marked when w changes the aggregate.
WriterCalls(w, c, changes) ==
    [v \in Writers |->
        IF v = w THEN c
        ELSE IF changes /\ pc[v] \in {"validated", "applying", "returned"}
             THEN [call[v] EXCEPT !.clean = FALSE]
        ELSE call[v]]

CallWriter(w) ==
    /\ pc[w] = "idle" /\ Len(bc.blocks) < MaxChain
    /\ \E blk \in WriterBlocks(bc) : call' = WriterCalls(w, WriterCall(blk), FALSE)
    /\ pc' = [pc EXCEPT ![w] = "called"]
    /\ UNCHANGED bc

\* if not _validate_block(bc, block): return False
ValidateStep(w) ==
    /\ pc[w] = "called"
    /\ IF _validate_block(bc, call[w].arg)
       THEN /\ pc' = [pc EXCEPT ![w] = "validated"]
            /\ call' = WriterCalls(w, [call[w] EXCEPT !.seen = bc], FALSE)
       ELSE /\ pc' = [pc EXCEPT ![w] = "returned"]
            /\ call' = WriterCalls(w, [call[w] EXCEPT !.seen = bc, !.ret = FALSE], FALSE)
    /\ UNCHANGED bc

\* bc.blocks.append(block)
AppendStep(w) ==
    /\ pc[w] = "validated"
    /\ bc' = [bc EXCEPT !.blocks = Append(@, call[w].arg)]
    /\ pc' = [pc EXCEPT ![w] = "applying"]
    /\ call' = WriterCalls(w, call[w], TRUE)

\* Mutant of ApplyStep: the transaction is counted but not applied.
ApplyStep_skip(w) ==
    /\ pc[w] = "applying" /\ call[w].applied < Len(call[w].arg.txs)
    /\ call' = WriterCalls(w, [call[w] EXCEPT !.applied = @ + 1], FALSE)
    /\ UNCHANGED <<bc, pc>>

\* for tx in block.txs: _apply_transaction(bc, tx)
ApplyStep(w) ==
    /\ pc[w] = "applying" /\ call[w].applied < Len(call[w].arg.txs)
    /\ bc' = _apply_transaction(bc, call[w].arg.txs[call[w].applied + 1])
    /\ call' = WriterCalls(w, [call[w] EXCEPT !.applied = @ + 1], TRUE)
    /\ UNCHANGED pc

\* return True
FinishStep(w) ==
    /\ pc[w] = "applying" /\ call[w].applied = Len(call[w].arg.txs)
    /\ pc' = [pc EXCEPT ![w] = "returned"]
    /\ call' = WriterCalls(w, [call[w] EXCEPT !.ret = TRUE], FALSE)
    /\ UNCHANGED bc

ReturnWriter(w) ==
    /\ pc[w] = "returned"
    /\ pc' = [pc EXCEPT ![w] = "idle"]
    /\ call' = WriterCalls(w, NoWriterCall, FALSE)
    /\ UNCHANGED bc

\* The ledger: blocks of up to two transactions, wallets, token types.
Next ==
    \/ Call
    \/ AppendBlock
    \/ CreateWallet
    \/ AddTokenType
    \/ Return

Spec == Init /\ [][Next]_vars

\* The chain: the header checks of append_block, create_genesis.
NextChain ==
    \/ CallChain
    \/ AppendBlock
    \/ CreateGenesis
    \/ CreatePool
    \/ Return

SpecChain == Init /\ [][NextChain]_vars

\* The registry: token types, wallets, pools, on-demand wallet creation.
NextRegistry ==
    \/ CallRegistry
    \/ AppendBlock
    \/ CreateWallet
    \/ AddTokenType
    \/ CreatePool
    \/ Return

SpecRegistry == Init /\ [][NextRegistry]_vars

\* The validator: one call of validate_blockchain on a given snapshot.
NextValidator ==
    \/ CallValidator
    \/ ValidateBlockchain
    \/ Return

SpecValidator == InitValidator /\ [][NextValidator]_vars

\* The validator's chain pass.
SpecValidatorChain == InitValidatorChain /\ [][NextValidator]_vars

\* The validator's wallet pass.
SpecValidatorWallets == InitValidatorWallets /\ [][NextValidator]_vars

\* Single transactions.
NextTx ==
    \/ CallTx
    \/ ValidateTransaction
    \/ AppendBlock
    \/ Return

SpecTx == InitTx /\ [][NextTx]_vars

\* The energy of a transaction.
NextEnergy ==
    \/ CallEnergy
    \/ ComputeTxEnergy
    \/ Return

SpecEnergy == Init /\ [][NextEnergy]_vars

\* The pools: creation, added and removed liquidity.
NextPool ==
    \/ CallPool
    \/ CreatePool
    \/ AddLiquidity
    \/ RemoveLiquidity
    \/ Return

SpecPool == Init /\ [][NextPool]_vars

\* The engine and its auditor.
NextAudit ==
    \/ CallEngine
    \/ CreateGenesis
    \/ AddTokenType
    \/ AppendBlock
    \/ ValidateBlockchain
    \/ Return

SpecAudit == Init /\ [][NextAudit]_vars

\* Every operation on one aggregate.
NextHistory ==
    \/ CallHistory
    \/ AppendBlock
    \/ CreateGenesis
    \/ CreateWallet
    \/ AddTokenType
    \/ CreatePool
    \/ AddLiquidity
    \/ RemoveLiquidity
    \/ ValidateBlockchain
    \/ Return

SpecHistory == Init /\ [][NextHistory]_vars

\* Two writers without any serialization.
NextWriters ==
    \E w \in Writers :
        \/ CallWriter(w)
        \/ ValidateStep(w)
        \/ AppendStep(w)
        \/ ApplyStep(w)
        \/ FinishStep(w)
        \/ ReturnWriter(w)

SpecWriters == InitWriters /\ [][NextWriters]_vars

(***************************************************************************)
(* Helpers of the properties.                                              *)
(***************************************************************************)
\* The step about to be taken is append_block(bc, call.arg).
AppendCall == pc = "called" /\ call.op = "append_block"

\* The last step was append_block(call.arg), with result call.ret.
AppendDone == pc = "returned" /\ call.op = "append_block"

\* Balance of token k (0-based) held under an address; 0 without a wallet.
BalanceOf(b, address, k) ==
    IF _find_wallet_index(b, address) < 0 THEN 0
    ELSE b.wallets[_find_wallet_index(b, address) + 1].balances[k + 1]

RECURSIVE SumBalances(_, _)
SumBalances(ws, k) ==
    IF ws = <<>> THEN 0 ELSE FAdd(Head(ws).balances[k + 1], SumBalances(Tail(ws), k))

\* Total of token k (0-based) over all wallets.
TotalBalance(b, k) == SumBalances(b.wallets, k)

TokenIndices(b) == 0..(Len(b.token_types) - 1)

AddressesOf(b) == {b.wallets[i].address : i \in 1..Len(b.wallets)}

OnlyKinds(txs, kinds) == \A i \in 1..Len(txs) : txs[i].kind \in kinds

(***************************************************************************)
(* C1.  No balance is ever negative.                                       *)
(***************************************************************************)
\* C1: in every reachable state every entry of every wallet's balance vector
\* is >= 0.  Violated: the transactions of a block are all validated against
\* the pre-block balance and then all applied.
C1_NoNegativeBalance ==
    \A i \in 1..Len(bc.wallets) :
        \A k \in 1..Len(bc.wallets[i].balances) : bc.wallets[i].balances[k] >= 0

(***************************************************************************)
(* C2.  Atomicity of append_block.                                         *)
(***************************************************************************)
\* C2: if some transaction of the candidate block fails _validate_transaction
\* against the current state, append_block returns False and the aggregate
\* (blocks, wallets, balances) is unchanged.
C2_Atomicity ==
    [][(/\ AppendCall
        /\ \E i \in 1..Len(call.arg.txs) : ~ _validate_transaction(bc, call.arg.txs[i]))
       => (call'.ret = FALSE /\ bc' = bc)]_vars

\* A block with a valid header whose first transaction is valid and whose
\* second is not has been rejected.
C2_Witness ==
    /\ AppendDone /\ call.ret = FALSE
    /\ HeaderOk(bc, call.arg)
    /\ Len(call.arg.txs) = 2
    /\ _validate_transaction(bc, call.arg.txs[1])
    /\ ~ _validate_transaction(bc, call.arg.txs[2])
    /\ bc.wallets # <<>>

(***************************************************************************)
(* C3.  Chain-integrity rejection.                                         *)
(***************************************************************************)
BadLinkage(b, block) ==
    \/ block.index # b.blocks[Len(b.blocks)].index + 1
    \/ block.prev_hash # b.blocks[Len(b.blocks)].hash
    \/ block.hash # compute_block_hash(block)

\* C3: on a non-empty chain a block with a wrong index, a wrong prev_hash or a
\* wrong stored hash is rejected and the aggregate is unchanged.  Violated: a
\* block with index 0 and the zero prev_hash is accepted on a non-empty chain.
C3_IntegrityRejection ==
    [][(AppendCall /\ bc.blocks # <<>> /\ BadLinkage(bc, call.arg))
       => (call'.ret = FALSE /\ bc' = bc)]_vars

(***************************************************************************)
(* C4.  Block indices are sequential from 0.                               *)
(***************************************************************************)
\* C4: the block at position i (0-based) of bc.blocks has index i.  Violated:
\* a second genesis block is appended to a non-empty chain.
C4_SequentialIndices ==
    \A i \in 1..Len(bc.blocks) : bc.blocks[i].index = i - 1

(***************************************************************************)
(* C5.  Previous-hash linkage.                                             *)
(***************************************************************************)
\* C5: the first block has the zero prev_hash and every later block has the
\* stored hash of its predecessor as prev_hash.  Violated as C4 is.
C5_PrevHashLinkage ==
    \A i \in 1..Len(bc.blocks) :
        bc.blocks[i].prev_hash = IF i = 1 THEN ZeroHash ELSE bc.blocks[i - 1].hash

(***************************************************************************)
(* C6.  Stored hash.                                                       *)
(***************************************************************************)
StoredHashesOk(b) ==
    \A i \in 1..Len(b.blocks) : b.blocks[i].hash = compute_block_hash(b.blocks[i])

\* C6: after every step each block of the chain stores the hash recomputed
\* from its own index, timestamp, prev_hash and transaction count, and a
\* candidate whose stored hash differs is not appended.
C6_StoredHash ==
    [][/\ StoredHashesOk(bc')
       /\ (AppendCall /\ call.arg.hash # compute_block_hash(call.arg))
          => (call'.ret = FALSE /\ bc'.blocks = bc.blocks)]_vars

\* A candidate that continues a non-empty chain but stores a wrong hash has
\* been rejected.
C6_Witness ==
    /\ AppendDone /\ call.ret = FALSE
    /\ bc.blocks # <<>>
    /\ call.arg.index = NextIndex(bc)
    /\ call.arg.prev_hash = LastHash(bc)
    /\ call.arg.hash # compute_block_hash(call.arg)
    /\ \A i \in 1..Len(call.arg.txs) : _validate_transaction(bc, call.arg.txs[i])

(***************************************************************************)
(* C7.  Conservation.                                                      *)
(***************************************************************************)
\* C7: an append_block call whose block holds only TRANSFER and SWAP
\* transactions leaves the total of every token over all wallets unchanged,
\* accepted or rejected, recipient wallet present or not.
C7_Conservation ==
    [][(AppendCall /\ OnlyKinds(call.arg.txs, {"TRANSFER", "SWAP"}))
       => \A k \in TokenIndices(bc) : TotalBalance(bc', k) = TotalBalance(bc, k)]_vars

\* An accepted block of transfers has moved a non-zero total, and one of its
\* recipients has no wallet (none could be created for it).
C7_Witness ==
    /\ AppendDone /\ call.ret = TRUE
    /\ call.arg.txs # <<>>
    /\ OnlyKinds(call.arg.txs, {"TRANSFER", "SWAP"})
    /\ \E i \in 1..Len(call.arg.txs) :
          _find_wallet_index(bc, call.arg.txs[i].to_address) < 0
    /\ TotalBalance(bc, 0) > 0

(***************************************************************************)
(* C8.  A TRANSFER or SWAP credits the named recipient.                    *)
(***************************************************************************)
\* C8: after an accepted block whose only transaction is a TRANSFER or SWAP of
\* amount a of token k from A to a different address B, the wallet of B holds
\* a more of k (0 before if absent), the wallet of A holds a less, and no other
\* balance changes.  Violated: with the wallet list full and no wallet for B
\* the credit goes to the last wallet of the list.
C8_TransferCreditsRecipient ==
    [][(/\ AppendCall
        /\ Len(call.arg.txs) = 1
        /\ call.arg.txs[1].kind \in {"TRANSFER", "SWAP"}
        /\ call.arg.txs[1].from_address # call.arg.txs[1].to_address
        /\ call'.ret = TRUE)
       => LET tx == call.arg.txs[1]
          IN  /\ _find_wallet_index(bc', tx.to_address) >= 0
              /\ \A x \in AddressesOf(bc) \cup AddressesOf(bc') \cup
                          {tx.from_address, tx.to_address} :
                   \A k \in TokenIndices(bc) :
                      BalanceOf(bc', x, k) = BalanceOf(bc, x, k)
                         + (IF x = tx.to_address /\ k = tx.token_index
                            THEN tx.amount ELSE 0)
                         - (IF x = tx.from_address /\ k = tx.token_index
                            THEN tx.amount ELSE 0)]_vars

(***************************************************************************)
(* C9.  Registry alignment.                                                *)
(***************************************************************************)
\* C9: every wallet has one balance per token type, and its token_count is
\* the number of token types.
C9_RegistryAlignment ==
    \A i \in 1..Len(bc.wallets) :
        /\ Len(bc.wallets[i].balances) = Len(bc.token_types)
        /\ bc.wallets[i].token_count = Len(bc.token_types)

\* A token type has been added while two wallets and a block existed, one
\* wallet holding a balance.
C9_Witness ==
    /\ pc = "returned" /\ call.op = "add_token_type" /\ call.ret = 3
    /\ Len(bc.wallets) >= 2
    /\ bc.blocks # <<>>
    /\ \E i \in 1..Len(bc.wallets) : bc.wallets[i].balances[1] > 0

(***************************************************************************)
(* C10.  Effect of a successful add_token_type.                            *)
(***************************************************************************)
\* C10: a successful add_token_type returns the previous token-type count,
\* gives every existing wallet one more balance entry, 0, at that index, keeps
\* every earlier entry, and leaves blocks, pools, stakes and the sequence of
\* wallet addresses unchanged.
C10_AddTokenTypeEffect ==
    [][(/\ pc = "called" /\ call.op = "add_token_type"
        /\ Len(bc.token_types) < ELTT_MAX_TOKEN_TYPES)
       => (/\ call'.ret = Len(bc.token_types)
           /\ Len(bc'.token_types) = Len(bc.token_types) + 1
           /\ Len(bc'.wallets) = Len(bc.wallets)
           /\ \A i \in 1..Len(bc.wallets) :
                 /\ bc'.wallets[i].address = bc.wallets[i].address
                 /\ Len(bc'.wallets[i].balances) = Len(bc.wallets[i].balances) + 1
                 /\ bc'.wallets[i].balances[call'.ret + 1] = 0
                 /\ \A k \in 1..Len(bc.wallets[i].balances) :
                       bc'.wallets[i].balances[k] = bc.wallets[i].balances[k]
           /\ bc'.blocks = bc.blocks
           /\ bc'.pools = bc.pools
           /\ bc'.stakes = bc.stakes)]_vars

\* A token type has been added while a wallet held a balance and a pool and a
\* block existed.
C10_Witness ==
    /\ pc = "returned" /\ call.op = "add_token_type" /\ call.ret = 3
    /\ \E i \in 1..Len(bc.wallets) : bc.wallets[i].balances[1] > 0
    /\ bc.pools # <<>>
    /\ bc.blocks # <<>>

(***************************************************************************)
(* C11.  Wallet addresses are unique.                                      *)
(***************************************************************************)
\* C11: no two entries of bc.wallets have the same address.
C11_UniqueAddresses ==
    \A i \in 1..Len(bc.wallets) : \A j \in 1..Len(bc.wallets) :
        bc.wallets[i].address = bc.wallets[j].address => i = j

\* An accepted block of two transactions, one of them with the same address
\* as sender and recipient, both naming that address, which now has a wallet.
C11_Witness ==
    /\ AppendDone /\ call.ret = TRUE
    /\ Len(call.arg.txs) = 2
    /\ call.arg.txs[2].from_address = call.arg.txs[2].to_address
    /\ call.arg.txs[1].to_address = call.arg.txs[2].to_address
    /\ Len(bc.blocks) = 1
    /\ _find_wallet_index(bc, call.arg.txs[2].to_address) >= 0

(***************************************************************************)
(* C12.  Token-type capacity.                                              *)
(***************************************************************************)
\* C12: the number of token types never exceeds ELTT_MAX_TOKEN_TYPES, and
\* add_token_type called at the maximum returns -1 and changes nothing (token
\* types, and every wallet's balances, token list and token_count).
C12_TokenTypeCapacity ==
    [][/\ Len(bc'.token_types) <= ELTT_MAX_TOKEN_TYPES
       /\ (/\ pc = "called" /\ call.op = "add_token_type"
           /\ Len(bc.token_types) >= ELTT_MAX_TOKEN_TYPES)
          => (/\ call'.ret = -1
              /\ bc'.token_types = bc.token_types
              /\ bc'.wallets = bc.wallets)]_vars

\* add_token_type has been refused at the maximum while wallets existed.
C12_Witness ==
    /\ pc = "returned" /\ call.op = "add_token_type" /\ call.ret = -1
    /\ Len(bc.token_types) = ELTT_MAX_TOKEN_TYPES
    /\ bc.wallets # <<>>

(***************************************************************************)
(* C13.  Wallet capacity.                                                  *)
(***************************************************************************)
\* C13: the number of wallets never exceeds ELTT_MAX_WALLETS, and a creation
\* attempted at the maximum creates no wallet.  Violated: create_wallet of the
\* wallet module appends without a capacity test.
C13_WalletCapacity ==
    [][/\ Len(bc'.wallets) <= ELTT_MAX_WALLETS
       /\ (/\ pc = "called" /\ call.op \in {"create_wallet", "append_block"}
           /\ Len(bc.wallets) >= ELTT_MAX_WALLETS)
          => Len(bc'.wallets) = Len(bc.wallets)]_vars

(***************************************************************************)
(* C14.  Timestamps are non-decreasing.                                    *)
(***************************************************************************)
\* C14: every block of the chain has a timestamp >= that of the block before
\* it.  Violated: neither _validate_block nor append_block compares timestamps.
C14_TimestampsNonDecreasing ==
    \A i \in 2..Len(bc.blocks) : bc.blocks[i].timestamp >= bc.blocks[i - 1].timestamp

(***************************************************************************)
(* C15.  The header hash does not depend on the transactions' content.     *)
(***************************************************************************)
\* C15: blocks equal in index, timestamp, prev_hash and number of transactions
\* have the same compute_block_hash, so when append_block accepts a block, the
\* same block with a different valid transaction list of the same length and
\* the same stored hash is accepted in the same state too.
C15_HeaderHashIndependence ==
    [][(AppendCall /\ call'.ret = TRUE) =>
         \A txs \in ReplacementTxLists :
            Len(txs) = Len(call.arg.txs) =>
               LET other == [call.arg EXCEPT !.txs = txs]
               IN  /\ compute_block_hash(other) = compute_block_hash(call.arg)
                   /\ (\A i \in 1..Len(txs) : _validate_transaction(bc, txs[i]))
                      => append_block(bc, other).ret = TRUE]_vars

\* A block with one transaction has been accepted, and a different list of one
\* transaction gives the stored hash.
C15_Witness ==
    /\ AppendDone /\ call.ret = TRUE
    /\ Len(call.arg.txs) = 1
    /\ \E txs \in ReplacementTxLists :
          /\ Len(txs) = 1 /\ txs # call.arg.txs
          /\ compute_block_hash([call.arg EXCEPT !.txs = txs]) = call.arg.hash

(***************************************************************************)
(* C16.  At most ELTT_MAX_TX_PER_BLOCK transactions per block.             *)
(***************************************************************************)
\* C16: no block of the chain has more than ELTT_MAX_TX_PER_BLOCK
\* transactions.  Violated: append_block never reads the limit.
C16_TxPerBlockLimit ==
    \A i \in 1..Len(bc.blocks) : Len(bc.blocks[i].txs) <= ELTT_MAX_TX_PER_BLOCK

(***************************************************************************)
(* The Full-State Validator.                                               *)
(***************************************************************************)
\* The last step was validate_blockchain(bc), with result call.ret.
ValidateDone == pc = "returned" /\ call.op = "validate_blockchain"

\* C17: validate_blockchain returns the error of the first failing check in
\* the order token symbols, wallets, pools, stakes, chain, and OK only when no
\* check fails.
C17_CheckOrder ==
    ValidateDone =>
       LET unique == _check_token_symbols_unique(bc)
           w == _check_wallets(bc)
           p == _check_pools(bc)
           st == _check_stakes(bc)
           ch == _check_chain(bc)
       IN  /\ ~ unique => call.ret = "TOKEN_SYMBOL_DUPLICATE"
           /\ (unique /\ w # "None") => call.ret = w
           /\ (unique /\ w = "None" /\ p # "None") => call.ret = p
           /\ (unique /\ w = "None" /\ p = "None" /\ st # "None") => call.ret = st
           /\ (unique /\ w = "None" /\ p = "None" /\ st = "None" /\ ch # "None")
              => call.ret = ch
           /\ call.ret = "OK"
              <=> (unique /\ w = "None" /\ p = "None" /\ st = "None" /\ ch = "None")

\* Duplicate token symbols together with an empty chain and an ill-formed pool
\* have been reported as TOKEN_SYMBOL_DUPLICATE.
C17_Witness ==
    /\ ValidateDone /\ call.ret = "TOKEN_SYMBOL_DUPLICATE"
    /\ bc.blocks = <<>>
    /\ _check_pools(bc) # "None"

\* The checks before the search for duplicates pass: token symbols, wallets,
\* pools, stakes, the linkage and timestamps of the blocks, the number of
\* transactions of each block and the fields of each transaction.
EarlierChecksPass(b) ==
    /\ _check_token_symbols_unique(b)
    /\ _check_wallets(b) = "None" /\ _check_pools(b) = "None" /\ _check_stakes(b) = "None"
    /\ b.blocks # <<>>
    /\ b.blocks[1].prev_hash = ZeroHash
    /\ \A i \in 2..Len(b.blocks) :
          /\ b.blocks[i].index = b.blocks[i - 1].index + 1
          /\ b.blocks[i].prev_hash = b.blocks[i - 1].hash
          /\ b.blocks[i].timestamp >= b.blocks[i - 1].timestamp
    /\ \A i \in 1..Len(b.blocks) :
          /\ Len(b.blocks[i].txs) <= ELTT_MAX_TX_PER_BLOCK
          /\ \A k \in 1..Len(b.blocks[i].txs) :
                LET tx == b.blocks[i].txs[k]
                IN  /\ tx.token_index >= 0 /\ tx.token_index < Len(b.token_types)
                    /\ tx.amount >= 0 /\ tx.kind \in TxKind
                    /\ _is_address_valid(tx.from_address)
                    /\ _is_address_valid(tx.to_address)

\* Two transactions of the block are equal in all six fields.
HasDuplicate(blk) ==
    \E i \in 1..Len(blk.txs) : \E j \in 1..Len(blk.txs) :
        i < j /\ blk.txs[i] = blk.txs[j]

\* C18: when the earlier checks pass, validate_blockchain returns
\* TX_REPLAY_DUPLICATE_IN_BLOCK exactly when some block holds two transactions
\* equal in (from, to, token index, amount, kind, memo).  Violated: the
\* fingerprint is Python's hash, which is equal for some different amounts.
C18_DuplicateDetection ==
    (ValidateDone /\ EarlierChecksPass(bc)) =>
       (call.ret = "TX_REPLAY_DUPLICATE_IN_BLOCK"
          <=> \E i \in 1..Len(bc.blocks) : HasDuplicate(bc.blocks[i]))

\* The stake breaks one of the four conditions on stakes.
StakeOffends(b, st) ==
    \/ ~ _is_address_valid(st.owner)
    \/ st.token_index < 0 \/ st.token_index >= Len(b.token_types)
    \/ st.amount < 0
    \/ st.lock_until < st.start_timestamp

\* C19: when token, wallet and pool checks pass and the first offending stake
\* has a well-formed owner, an in-range token index, amount >= 0 and
\* lock_until < start_timestamp, the result is STAKE_TIME_INCONSISTENT; the
\* result is never OK with a stake of lock_until < start_timestamp or amount < 0.
C19_StakeCheck ==
    ValidateDone =>
       /\ (/\ _check_token_symbols_unique(bc)
           /\ _check_wallets(bc) = "None" /\ _check_pools(bc) = "None"
           /\ \E i \in 1..Len(bc.stakes) :
                 /\ \A j \in 1..(i - 1) : ~ StakeOffends(bc, bc.stakes[j])
                 /\ _is_address_valid(bc.stakes[i].owner)
                 /\ bc.stakes[i].token_index >= 0
                 /\ bc.stakes[i].token_index < Len(bc.token_types)
                 /\ bc.stakes[i].amount >= 0
                 /\ bc.stakes[i].lock_until < bc.stakes[i].start_timestamp)
          => call.ret = "STAKE_TIME_INCONSISTENT"
       /\ (\E i \in 1..Len(bc.stakes) :
              \/ bc.stakes[i].lock_until < bc.stakes[i].start_timestamp
              \/ bc.stakes[i].amount < 0)
          => call.ret # "OK"

\* STAKE_TIME_INCONSISTENT has been returned for the second of two stakes.
C19_Witness ==
    /\ ValidateDone /\ call.ret = "STAKE_TIME_INCONSISTENT"
    /\ Len(bc.stakes) = 2
    /\ ~ StakeOffends(bc, bc.stakes[1])
    /\ bc.stakes[2].lock_until < bc.stakes[2].start_timestamp

\* One of the pool's three token indices is outside [0, token-type count).
PoolIndexOutOfRange(b, p) ==
    \E k \in {p.token_x_index, p.token_y_index, p.lp_token_index} :
        k < 0 \/ k >= Len(b.token_types)

PoolReserveNegative(p) == p.reserve_x < 0 \/ p.reserve_y < 0

\* C20: the result is never OK with a pool that has a negative reserve or an
\* out-of-range index; when token and wallet checks pass, it is
\* POOL_INDEX_INVALID if the first offending pool has an out-of-range index and
\* POOL_RESERVE_NEGATIVE if its indices are in range and a reserve is negative.
C20_PoolCheck ==
    ValidateDone =>
       /\ (\E i \in 1..Len(bc.pools) :
              PoolIndexOutOfRange(bc, bc.pools[i]) \/ PoolReserveNegative(bc.pools[i]))
          => call.ret # "OK"
       /\ (_check_token_symbols_unique(bc) /\ _check_wallets(bc) = "None")
          => \A i \in 1..Len(bc.pools) :
                (\A j \in 1..(i - 1) :
                    /\ ~ PoolIndexOutOfRange(bc, bc.pools[j])
                    /\ ~ PoolReserveNegative(bc.pools[j]))
                => /\ PoolIndexOutOfRange(bc, bc.pools[i])
                      => call.ret = "POOL_INDEX_INVALID"
                   /\ (~ PoolIndexOutOfRange(bc, bc.pools[i])
                       /\ PoolReserveNegative(bc.pools[i]))
                      => call.ret = "POOL_RESERVE_NEGATIVE"

\* POOL_RESERVE_NEGATIVE has been returned for the second of two pools.
C20_Witness ==
    /\ ValidateDone /\ call.ret = "POOL_RESERVE_NEGATIVE"
    /\ Len(bc.pools) = 2
    /\ ~ PoolIndexOutOfRange(bc, bc.pools[1]) /\ ~ PoolReserveNegative(bc.pools[1])
    /\ PoolReserveNegative(bc.pools[2])

\* The step about to be taken is validate_blockchain(bc).
ValidateCall == pc = "called" /\ call.op = "validate_blockchain"

\* C21: validate_blockchain returns a ValidatorError and leaves blocks,
\* wallets, token types, pools and stakes of the snapshot unchanged, whatever
\* the outcome.
C21_ValidatorReadOnly ==
    [][ValidateCall =>
         /\ call'.ret \in ValidatorError
         /\ bc'.blocks = bc.blocks /\ bc'.wallets = bc.wallets
         /\ bc'.token_types = bc.token_types
         /\ bc'.pools = bc.pools /\ bc'.stakes = bc.stakes]_vars

\* An ill-formed snapshot (a non-empty chain, a negative stake and a negative
\* pool reserve) has been validated and reported.
C21_Witness ==
    /\ ValidateDone /\ call.ret \notin {"OK", "NO_BLOCKS"}
    /\ bc.blocks # <<>> /\ bc.wallets # <<>>
    /\ \E i \in 1..Len(bc.stakes) : bc.stakes[i].amount < 0
    /\ \E i \in 1..Len(bc.pools) : bc.pools[i].reserve_x < 0

\* The stored hash of block i (1-based) is not the hash of its header.
StoredHashWrong(b, i) == b.blocks[i].hash # compute_block_hash(b.blocks[i])

\* C22: validate_blockchain never returns BLOCK_HASH_MISMATCH; a snapshot
\* whose only defect is a stored hash that differs from the recomputed one
\* (index and prev_hash linkage, timestamps, transactions and the registries
\* pass) is reported OK; append_block rejects such a block on the chain of the
\* blocks before it.
C22_NoHashRecomputation ==
    ValidateDone =>
       /\ call.ret # "BLOCK_HASH_MISMATCH"
       /\ (/\ _check_token_symbols_unique(bc)
           /\ _check_wallets(bc) = "None" /\ _check_pools(bc) = "None"
           /\ _check_stakes(bc) = "None"
           /\ bc.blocks # <<>>
           /\ bc.blocks[1].prev_hash = ZeroHash
           /\ \A i \in 2..Len(bc.blocks) :
                 /\ bc.blocks[i].index = bc.blocks[i - 1].index + 1
                 /\ bc.blocks[i].prev_hash = bc.blocks[i - 1].hash
                 /\ bc.blocks[i].timestamp >= bc.blocks[i - 1].timestamp
           /\ \A i \in 1..Len(bc.blocks) :
                 _check_block_transactions(bc, bc.blocks[i]) = "None")
          => call.ret = "OK"
       /\ \A i \in 1..Len(bc.blocks) :
             StoredHashWrong(bc, i)
             => append_block([bc EXCEPT !.blocks = SubSeq(bc.blocks, 1, i - 1)],
                             bc.blocks[i]).ret = FALSE

\* A chain of two linked blocks, one of them with a wrong stored hash, has
\* been reported OK.
C22_Witness ==
    /\ ValidateDone /\ call.ret = "OK"
    /\ Len(bc.blocks) = 2
    /\ \E i \in 1..2 : StoredHashWrong(bc, i)

(***************************************************************************)
(* C23.  Transaction energy.                                               *)
(***************************************************************************)
\* Number of bytes of the UTF-8 encoding of a string.
RECURSIVE ByteLen(_)
ByteLen(s) ==
    IF s = <<>> THEN 0
    ELSE (IF Head(s) < 128 THEN 1 ELSE IF Head(s) < 2048 THEN 2
          ELSE IF Head(s) < 65536 THEN 3 ELSE 4) + ByteLen(Tail(s))

\* len(from)+1 + len(to)+1 + 8 + 4 + 4 + len(memo)+1, the lengths in bytes.
SerializedLength(tx) ==
    (ByteLen(tx.from_address) + 1) + (ByteLen(tx.to_address) + 1) + 8 + 4 + 4
    + (ByteLen(tx.memo) + 1)

\* C23: the energy of a transaction is 2*L + frac with L the serialized byte
\* length (27 for from "alice", to "bob" and an empty memo) and frac the tail
\* of the hash modulo 1,000,000,000, in 1/1,000,000,000, so 0 <= frac < 1; it
\* is determined by the transaction's fields.
C23_Energy ==
    (pc = "returned" /\ call.op = "compute_tx_energy") =>
       LET tx == call.arg
       IN  /\ call.ret.units = 2 * SerializedLength(tx)
           /\ call.ret.nanos >= 0 /\ call.ret.nanos < ELTT_ENERGY_FRAC_MODULUS
           /\ (Last8(_serialize_transaction(tx)) - call.ret.nanos)
                 % ELTT_ENERGY_FRAC_MODULUS = 0
           /\ (tx.from_address = Alice /\ tx.to_address = Bob /\ tx.memo = <<>>)
              => call.ret.units = 2 * 27
           /\ \A other \in EnergyTxs : other = tx => compute_tx_energy(other) = call.ret

\* The energy of a transaction from "alice" to "bob" with an empty memo has
\* been computed, and the tail of its hash exceeds the modulus.
C23_Witness ==
    /\ pc = "returned" /\ call.op = "compute_tx_energy"
    /\ call.arg.from_address = Alice /\ call.arg.to_address = Bob /\ call.arg.memo = <<>>
    /\ call.ret.units = 54
    /\ Last8(_serialize_transaction(call.arg)) >= ELTT_ENERGY_FRAC_MODULUS

(***************************************************************************)
(* C24.  Transactions are validated against the pre-block state.           *)
(***************************************************************************)
\* C24: append_block accepts a block exactly when its header checks pass and
\* every transaction passes _validate_transaction on the state before the
\* block; a block whose later transaction would be valid only after an earlier
\* one of the same block is applied is rejected as a whole.
C24_PreBlockValidation ==
    [][AppendCall =>
         /\ call'.ret = TRUE
            <=> (/\ HeaderOk(bc, call.arg)
                 /\ \A i \in 1..Len(call.arg.txs) :
                       _validate_transaction(bc, call.arg.txs[i]))
         /\ (\E i \in 1..Len(call.arg.txs) : ~ _validate_transaction(bc, call.arg.txs[i]))
            => (call'.ret = FALSE /\ bc' = bc)]_vars

\* A block with a valid header has been rejected whose first transaction mints
\* to a wallet and whose second transfers the minted amount out of it: the
\* second is invalid in the state before the block and valid after the first.
C24_Witness ==
    /\ AppendDone /\ call.ret = FALSE
    /\ HeaderOk(bc, call.arg)
    /\ Len(call.arg.txs) = 2
    /\ call.arg.txs[1].kind = "MINT" /\ call.arg.txs[2].kind = "TRANSFER"
    /\ call.arg.txs[2].from_address = call.arg.txs[1].to_address
    /\ _validate_transaction(bc, call.arg.txs[1])
    /\ ~ _validate_transaction(bc, call.arg.txs[2])
    /\ _validate_transaction(_apply_transaction(bc, call.arg.txs[1]), call.arg.txs[2])

(***************************************************************************)
(* C25.  Effect of an accepted block.                                      *)
(***************************************************************************)
\* The aggregate after the transactions (at most two) are applied in list order.
AppliedInOrder(b, txs) ==
    IF Len(txs) = 0 THEN b
    ELSE IF Len(txs) = 1 THEN _apply_transaction(b, txs[1])
    ELSE _apply_transaction(_apply_transaction(b, txs[1]), txs[2])

\* C25: when append_block returns True, the chain is the old chain with the
\* candidate block added at the end, the wallets are those obtained by
\* applying the block's transactions in list order to the pre-block state, and
\* token types, pools and stakes are unchanged.
C25_AcceptedBlockEffect ==
    [][(AppendCall /\ call'.ret = TRUE /\ Len(call.arg.txs) <= 2) =>
         /\ bc'.blocks = Append(bc.blocks, call.arg)
         /\ bc'.wallets = AppliedInOrder(bc, call.arg.txs).wallets
         /\ bc'.token_types = bc.token_types
         /\ bc'.pools = bc.pools /\ bc'.stakes = bc.stakes]_vars

\* The one block of the chain has been accepted with two transactions that
\* created the two wallets in the order of the list; the second transaction
\* names the recipient of the first as its sender, so that the reverse order
\* would have created the wallets the other way round.
C25_Witness ==
    /\ AppendDone /\ call.ret = TRUE
    /\ Len(call.arg.txs) = 2
    /\ Len(bc.blocks) = 1 /\ Len(bc.wallets) = 2
    /\ bc.wallets[1].address = call.arg.txs[1].from_address
    /\ bc.wallets[2].address = call.arg.txs[1].to_address
    /\ call.arg.txs[2].from_address = call.arg.txs[1].to_address

(***************************************************************************)
(* C26 - C28.  Validation of a transaction, by kind.                       *)
(***************************************************************************)
\* The last step was _validate_transaction(bc, call.arg), with result call.ret.
ValidateTxDone == pc = "returned" /\ call.op = "_validate_transaction"

HasWallet(b, address) == \E i \in 1..Len(b.wallets) : b.wallets[i].address = address

TokenIndexInRange(b, tx) == tx.token_index >= 0 /\ tx.token_index < Len(b.token_types)

\* C26: a TRANSFER, SWAP, STAKE or BURN is accepted if and only if the token
\* index is in range, the sender has a wallet, the amount is > 0 and the
\* sender's balance of the token is >= the amount; the recipient's wallet is
\* irrelevant.
C26_ValidateSpend ==
    (ValidateTxDone /\ call.arg.kind \in {"TRANSFER", "SWAP", "STAKE", "BURN"}) =>
       (call.ret = TRUE
          <=> (/\ TokenIndexInRange(bc, call.arg)
               /\ HasWallet(bc, call.arg.from_address)
               /\ FLt(0, call.arg.amount)
               /\ FLe(call.arg.amount,
                      BalanceOf(bc, call.arg.from_address, call.arg.token_index))))

\* A STAKE whose recipient has no wallet has been found valid.
C26_Witness ==
    /\ ValidateTxDone /\ call.arg.kind = "STAKE" /\ call.ret = TRUE
    /\ ~ HasWallet(bc, call.arg.to_address)

\* C27: a MINT is accepted if and only if the token index is in range, the
\* recipient has a wallet and the amount is > 0; the sender needs no wallet.
C27_ValidateMint ==
    (ValidateTxDone /\ call.arg.kind = "MINT") =>
       (call.ret = TRUE
          <=> (/\ TokenIndexInRange(bc, call.arg)
               /\ HasWallet(bc, call.arg.to_address)
               /\ FLt(0, call.arg.amount)))

\* A MINT whose sender has no wallet has been found valid.
C27_Witness ==
    /\ ValidateTxDone /\ call.arg.kind = "MINT" /\ call.ret = TRUE
    /\ ~ HasWallet(bc, call.arg.from_address)

\* A MINT of a positive amount of a token in range to an address without a
\* wallet has been found invalid.
C27_WitnessRejected ==
    /\ ValidateTxDone /\ call.arg.kind = "MINT" /\ call.ret = FALSE
    /\ TokenIndexInRange(bc, call.arg) /\ FLt(0, call.arg.amount)
    /\ ~ HasWallet(bc, call.arg.to_address)

OtherKinds ==
    {"CREATE_TOKEN", "CREATE_POOL", "ADD_LIQUIDITY", "REMOVE_LIQUIDITY", "UNSTAKE",
     "CLAIM_REWARDS", "PROFILE_UPDATE", "GOVERNANCE_PROPOSAL"}

\* C28: a transaction of one of the remaining kinds is accepted if and only
\* if the token index is in range and the amount is >= 0, whatever wallets and
\* balances exist.
C28_ValidateOtherKinds ==
    (ValidateTxDone /\ call.arg.kind \in OtherKinds) =>
       (call.ret = TRUE <=> (TokenIndexInRange(bc, call.arg) /\ FLe(0, call.arg.amount)))

\* A GOVERNANCE_PROPOSAL of amount 0 between two addresses without wallets has
\* been found valid.
C28_Witness ==
    /\ ValidateTxDone /\ call.arg.kind = "GOVERNANCE_PROPOSAL" /\ call.ret = TRUE
    /\ call.arg.amount = 0
    /\ ~ HasWallet(bc, call.arg.from_address) /\ ~ HasWallet(bc, call.arg.to_address)

(***************************************************************************)
(* C29 - C30.  Application of a transaction, by kind.                      *)
(***************************************************************************)
\* The step about to be taken is append_block of a block holding one
\* transaction of one of the kinds, and it is accepted.
AcceptsOne(kinds) ==
    /\ AppendCall /\ Len(call.arg.txs) = 1 /\ call.arg.txs[1].kind \in kinds
    /\ call'.ret = TRUE

\* C29: an accepted MINT of amount a of token k raises the recipient's
\* balance of k by a and changes no other balance, so the total of k grows by
\* a; an accepted BURN lowers the sender's balance of k by a and changes no
\* other balance, so the total of k shrinks by a.
C29_MintBurnEffect ==
    [][AcceptsOne({"MINT", "BURN"}) =>
         LET tx == call.arg.txs[1]
             who == IF tx.kind = "MINT" THEN tx.to_address ELSE tx.from_address
             delta == IF tx.kind = "MINT" THEN tx.amount ELSE FNeg(tx.amount)
         IN  \A k \in TokenIndices(bc) :
                /\ \A x \in AddressesOf(bc) \cup AddressesOf(bc')
                            \cup {tx.from_address, tx.to_address} :
                      BalanceOf(bc', x, k)
                         = FAdd(BalanceOf(bc, x, k),
                                IF x = who /\ k = tx.token_index THEN delta ELSE 0)
                /\ TotalBalance(bc', k)
                      = FAdd(TotalBalance(bc, k),
                             IF k = tx.token_index THEN delta ELSE 0)]_vars

\* A MINT from an address to a different one has been accepted and applied.
C29_Witness ==
    /\ AppendDone /\ call.ret = TRUE /\ Len(call.arg.txs) = 1
    /\ call.arg.txs[1].kind = "MINT"
    /\ call.arg.txs[1].from_address # call.arg.txs[1].to_address
    /\ FLe(call.arg.txs[1].amount,
           BalanceOf(bc, call.arg.txs[1].to_address, call.arg.txs[1].token_index))
    /\ HasWallet(bc, call.arg.txs[1].from_address)

\* A BURN whose recipient has no wallet has been accepted and applied.
C29_WitnessBurn ==
    /\ AppendDone /\ call.ret = TRUE /\ Len(call.arg.txs) = 1
    /\ call.arg.txs[1].kind = "BURN"
    /\ call.arg.txs[1].from_address # call.arg.txs[1].to_address

NoEffectKinds == OtherKinds \cup {"STAKE"}

\* C30: an accepted transaction of a kind without balance effect leaves every
\* existing wallet, the token types, the pools and the stakes unchanged; the
\* wallets it adds are zero-balance wallets of its sender or recipient.
C30_NoBalanceEffect ==
    [][AcceptsOne(NoEffectKinds) =>
         LET tx == call.arg.txs[1]
         IN  /\ Len(bc'.wallets) >= Len(bc.wallets)
             /\ \A i \in 1..Len(bc.wallets) : bc'.wallets[i] = bc.wallets[i]
             /\ \A i \in (Len(bc.wallets) + 1)..Len(bc'.wallets) :
                   /\ bc'.wallets[i].address \in {tx.from_address, tx.to_address}
                   /\ \A k \in 1..Len(bc'.wallets[i].balances) :
                         bc'.wallets[i].balances[k] = 0
             /\ bc'.token_types = bc.token_types
             /\ bc'.pools = bc.pools /\ bc'.stakes = bc.stakes]_vars

\* A STAKE of a positive amount has been accepted and has created a wallet for
\* its recipient, with pools in the aggregate.
C30_Witness ==
    /\ AppendDone /\ call.ret = TRUE /\ Len(call.arg.txs) = 1
    /\ call.arg.txs[1].kind = "STAKE" /\ FLt(0, call.arg.txs[1].amount)
    /\ Len(bc.wallets) = 2
    /\ bc.wallets[2].address = call.arg.txs[1].to_address
    /\ bc.wallets[2].address # call.arg.txs[1].from_address
    /\ BalanceOf(bc, call.arg.txs[1].from_address, 0) = 2


(***************************************************************************)
(* C31.  Acceptance on an empty chain.                                     *)
(***************************************************************************)
\* C31: on an empty chain append_block accepts a candidate only if its index
\* is 0, its prev_hash is the zero hash, its stored hash is the hash of its
\* header and each of its transactions is valid; a candidate with another
\* index is rejected and the chain stays empty.
C31_EmptyChainAcceptance ==
    [][(AppendCall /\ bc.blocks = <<>>) =>
         /\ call'.ret = TRUE =>
               /\ call.arg.index = 0
               /\ call.arg.prev_hash = ZeroHash
               /\ call.arg.hash = sha256(_serialize_block_header(call.arg))
               /\ \A i \in 1..Len(call.arg.txs) : _validate_transaction(bc, call.arg.txs[i])
         /\ call.arg.index # 0 => (call'.ret = FALSE /\ bc'.blocks = <<>>)]_vars

\* A candidate of index 1 with the zero prev_hash, a correct stored hash and
\* valid transactions has been rejected on the empty chain.
C31_Witness ==
    /\ AppendDone /\ call.ret = FALSE /\ bc.blocks = <<>>
    /\ call.arg.index = 1 /\ call.arg.prev_hash = ZeroHash
    /\ call.arg.hash = compute_block_hash(call.arg)
    /\ \A i \in 1..Len(call.arg.txs) : _validate_transaction(bc, call.arg.txs[i])

\* A candidate of index 0 has been accepted on the empty chain.
C31_WitnessAccepted ==
    /\ AppendDone /\ call.ret = TRUE /\ Len(bc.blocks) = 1
    /\ bc.blocks[1].index = 0 /\ bc.blocks[1].txs # <<>>

(***************************************************************************)
(* C32.  The chain is append-only.                                         *)
(***************************************************************************)
IsPrefix(s, t) == Len(s) <= Len(t) /\ SubSeq(t, 1, Len(s)) = s

\* C32: no step of any operation (append_block accepted or rejected,
\* create_genesis, add_token_type, create_wallet, the pool operations,
\* validate_blockchain) removes, reorders or modifies a block of bc.blocks:
\* the blocks before the step are a prefix of the blocks after it, and a step
\* adds at most one block.
C32_AppendOnly ==
    [][/\ IsPrefix(bc.blocks, bc'.blocks)
       /\ Len(bc'.blocks) <= Len(bc.blocks) + 1]_vars

\* A block has been accepted onto a chain of two blocks, on an aggregate that
\* has a wallet, an added token type and a pool with liquidity.
C32_Witness ==
    /\ pc = "returned" /\ call.op = "append_block" /\ call.ret = TRUE
    /\ Len(bc.blocks) = 3
    /\ bc.wallets # <<>> /\ bc.pools # <<>> /\ bc.pools[1].reserve_x > 0
    /\ Len(bc.token_types) > Len(init_blockchain.token_types)

\* A block has been rejected on a chain of two blocks.
C32_WitnessRejected ==
    /\ pc = "returned" /\ call.op = "append_block" /\ call.ret = FALSE
    /\ Len(bc.blocks) = 2

(***************************************************************************)
(* C38.  Pool reserves are never negative.                                 *)
(***************************************************************************)
\* C38: every pool has reserve_x >= 0 and reserve_y >= 0, after any sequence
\* of create_pool, add_liquidity and remove_liquidity calls.
C38_ReservesNonNegative ==
    \A i \in 1..Len(bc.pools) :
       FLe(0, bc.pools[i].reserve_x) /\ FLe(0, bc.pools[i].reserve_y)

(***************************************************************************)
(* C33.  Timestamp check of the Full-State Validator.                      *)
(***************************************************************************)
\* The checks before the chain pass succeed and the chain is not empty.
ChainPassReached(b) ==
    /\ _check_token_symbols_unique(b)
    /\ _check_wallets(b) = "None" /\ _check_pools(b) = "None" /\ _check_stakes(b) = "None"
    /\ b.blocks # <<>>

LinkageOk(b, i) ==
    IF i = 1 THEN b.blocks[1].prev_hash = ZeroHash
    ELSE /\ b.blocks[i].index = b.blocks[i - 1].index + 1
         /\ b.blocks[i].prev_hash = b.blocks[i - 1].hash

\* Block i has a timestamp smaller than that of the block before it.
Regresses(b, i) == i > 1 /\ b.blocks[i].timestamp < b.blocks[i - 1].timestamp

\* C33: when the checks before the chain pass succeed, validate_blockchain
\* returns TIMESTAMP_NON_MONOTONIC if and only if some block after the first
\* has a timestamp strictly smaller than its predecessor's and no check of
\* the chain pass before that comparison fails (the linkage of the blocks up
\* to it, the timestamps and the transactions of the blocks before it).
C33_TimestampCheck ==
    (ValidateDone /\ ChainPassReached(bc)) =>
       (call.ret = "TIMESTAMP_NON_MONOTONIC"
          <=> \E i \in 2..Len(bc.blocks) :
                 /\ Regresses(bc, i)
                 /\ \A j \in 1..i : LinkageOk(bc, j)
                 /\ \A j \in 1..(i - 1) :
                       /\ ~ Regresses(bc, j)
                       /\ _check_block_transactions(bc, bc.blocks[j]) = "None")

\* A chain of three blocks whose first block has a negative timestamp and
\* whose second and third blocks have equal timestamps has been judged OK.
C33_Witness ==
    /\ ValidateDone /\ call.ret = "OK" /\ Len(bc.blocks) = 3
    /\ bc.blocks[1].timestamp < 0
    /\ bc.blocks[2].timestamp = bc.blocks[3].timestamp

\* A chain whose third block is older than its second has been reported.
C33_WitnessReported ==
    /\ ValidateDone /\ call.ret = "TIMESTAMP_NON_MONOTONIC" /\ Len(bc.blocks) = 3
    /\ bc.blocks[1].timestamp <= bc.blocks[2].timestamp
    /\ bc.blocks[3].timestamp < bc.blocks[2].timestamp

(***************************************************************************)
(* C34.  Wallet check of the Full-State Validator.                         *)
(***************************************************************************)
\* 1 to 63 characters, none with a code below 32 or equal to 127.
WellFormed(addr) ==
    /\ Len(addr) >= 1 /\ Len(addr) <= 63
    /\ \A i \in 1..Len(addr) : addr[i] >= 32 /\ addr[i] # 127

NegativeWithinCount(w) ==
    \E k \in 1..Len(w.balances) : k <= w.token_count /\ FLt(w.balances[k], 0)

WalletOk(b, w) ==
    /\ WellFormed(w.address)
    /\ w.token_count <= Len(b.token_types)
    /\ ~ NegativeWithinCount(w)

\* C34: when the token symbols are unique, validate_blockchain returns OK
\* only if every wallet has a well-formed address, a token count within the
\* token types and no negative balance among its first token_count entries;
\* it returns WALLET_ADDRESS_INVALID when the first wallet that fails has a
\* malformed address, and WALLET_BALANCE_NEGATIVE when that wallet has a
\* well-formed address, a token count in range and such a negative balance.
C34_WalletCheck ==
    (ValidateDone /\ _check_token_symbols_unique(bc)) =>
       /\ call.ret = "OK" => \A i \in 1..Len(bc.wallets) : WalletOk(bc, bc.wallets[i])
       /\ \A i \in 1..Len(bc.wallets) :
             (\A j \in 1..(i - 1) : WalletOk(bc, bc.wallets[j])) =>
                /\ ~ WellFormed(bc.wallets[i].address)
                      => call.ret = "WALLET_ADDRESS_INVALID"
                /\ (/\ WellFormed(bc.wallets[i].address)
                    /\ bc.wallets[i].token_count <= Len(bc.token_types)
                    /\ NegativeWithinCount(bc.wallets[i]))
                      => call.ret = "WALLET_BALANCE_NEGATIVE"

\* A snapshot whose wallet has an address of 63 characters and a negative
\* balance beyond its token count has been judged OK.
C34_Witness ==
    /\ ValidateDone /\ call.ret = "OK" /\ Len(bc.wallets) = 1
    /\ Len(bc.wallets[1].address) = 63
    /\ bc.wallets[1].token_count = 1 /\ bc.wallets[1].balances[2] < 0

\* A second wallet with an empty address has been reported after a first
\* wallet that is in order.
C34_WitnessReported ==
    /\ ValidateDone /\ call.ret = "WALLET_ADDRESS_INVALID" /\ Len(bc.wallets) = 2
    /\ WalletOk(bc, bc.wallets[1]) /\ bc.wallets[2].address = <<>>

(***************************************************************************)
(* C35.  Chain-structure check of the Full-State Validator.                *)
(***************************************************************************)
\* C35: whenever validate_blockchain returns OK, the chain is not empty, its
\* first block has index 0 and the zero prev_hash, and every later block has
\* the index of its predecessor plus 1 and its predecessor's stored hash as
\* prev_hash, so that the block at position i has index i.  Violated: the
\* index of the first block is not checked.
C35_ChainStructure ==
    (ValidateDone /\ call.ret = "OK") =>
       /\ bc.blocks # <<>>
       /\ bc.blocks[1].index = 0 /\ bc.blocks[1].prev_hash = ZeroHash
       /\ \A i \in 2..Len(bc.blocks) :
             /\ bc.blocks[i].index = bc.blocks[i - 1].index + 1
             /\ bc.blocks[i].prev_hash = bc.blocks[i - 1].hash
       /\ \A i \in 1..Len(bc.blocks) : bc.blocks[i].index = i - 1

(***************************************************************************)
(* C36.  The engine and the auditor agree.                                 *)
(***************************************************************************)
\* C36: every state that the engine reaches from init_blockchain and
\* create_genesis by add_token_type and append_block calls is judged OK by
\* validate_blockchain.
C36_EngineStatesAudited ==
    (ValidateDone /\ bc.blocks # <<>>) => call.ret = "OK"

(***************************************************************************)
(* C37.  Token symbols stay unique.                                        *)
(***************************************************************************)
\* C37: no two entries of bc.token_types have the same symbol.
C37_UniqueSymbols ==
    \A i \in 1..Len(bc.token_types) : \A j \in 1..Len(bc.token_types) :
        bc.token_types[i].symbol = bc.token_types[j].symbol => i = j

(***************************************************************************)
(* C39.  A transfer to oneself.                                            *)
(***************************************************************************)
\* C39: when append_block accepts a block holding only a TRANSFER or SWAP
\* whose sender and recipient are the same address, every balance of every
\* wallet is the same after the block as before it.
C39_SelfTransferNoOp ==
    [][(/\ AcceptsOne({"TRANSFER", "SWAP"})
        /\ call.arg.txs[1].from_address = call.arg.txs[1].to_address) =>
          /\ Len(bc'.wallets) = Len(bc.wallets)
          /\ \A i \in 1..Len(bc.wallets) :
                bc'.wallets[i].balances = bc.wallets[i].balances]_vars

(***************************************************************************)
(* C40.  append_block is not atomic against interleaved mutation.          *)
(***************************************************************************)
NoNegative(b) ==
    \A i \in 1..Len(b.wallets) : \A k \in 1..Len(b.wallets[i].balances) :
        ~ FLt(b.wallets[i].balances[k], 0)

LastLinked(b) ==
    /\ Len(b.blocks) >= 2
    /\ b.blocks[Len(b.blocks)].index = b.blocks[Len(b.blocks) - 1].index + 1
    /\ b.blocks[Len(b.blocks)].prev_hash = b.blocks[Len(b.blocks) - 1].hash

\* C40: a call of append_block during which no other writer changes the
\* aggregate has the effect and the result of the whole append_block on the
\* aggregate that its _validate_block saw: an accepted block of non-zero
\* index is linked to the block before it, and a block of at most one
\* transaction leaves no balance negative.  (The witnesses are the states
\* that interleaved calls reach instead.)
C40_UninterruptedIsAtomic ==
    \A w \in Writers :
       (pc[w] = "returned" /\ call[w].clean) =>
          LET r == append_block(call[w].seen, call[w].arg)
          IN  /\ bc = r.bc /\ call[w].ret = r.ret
              /\ (call[w].ret = TRUE /\ call[w].arg.index # 0) => LastLinked(bc)
              /\ (NoNegative(call[w].seen) /\ Len(call[w].arg.txs) <= 1) => NoNegative(bc)

\* Both writers' blocks have been accepted with the same non-zero index: the
\* chain holds two consecutive blocks of that index.
C40_Witness ==
    /\ \A w \in Writers : pc[w] = "returned" /\ call[w].ret = TRUE
    /\ call[1].arg.index = call[2].arg.index /\ call[1].arg.index # 0
    /\ ~ LastLinked(bc)

\* Both writers' transfers have been accepted, each covered by the balance
\* that its validation saw, and the sender's balance is negative.
C40_WitnessNegative ==
    /\ \A w \in Writers :
          /\ pc[w] = "returned" /\ call[w].ret = TRUE
          /\ Len(call[w].arg.txs) = 1 /\ NoNegative(call[w].seen)
    /\ ~ NoNegative(bc)

\* A writer has run uninterrupted while the other was idle, and its block has
\* been accepted.
C40_WitnessSerial ==
    \E w \in Writers :
       /\ pc[w] = "returned" /\ call[w].ret = TRUE /\ call[w].clean
       /\ call[w].arg.txs # <<>> /\ Len(bc.blocks) = 3
====
